---- MODULE Spec2Model ----
(***************************************************************************)
(* BibAIFilter: the batch scoring pipeline.                                *)
(*   - AIProcessor._parse_result        (src/utils/ai_processor.py)        *)
(*   - AIProcessor.get_relevance_score[_with_prompt] and the per-provider  *)
(*     request/retry loops              (src/utils/ai_processor.py)        *)
(*   - ProcessingThread.run / terminate (src/ui/worker_thread.py)          *)
(*   - MainWindow.stop_filtering        (src/ui/main_window.py)            *)
(*                                                                         *)
(* A text is a sequence of tokens.  A token is an atomic chunk of          *)
(* characters; the alphabet is chosen so that every substring test of the  *)
(* code ("x in text", re.findall(r'\d+'), float(text), json.loads(text))   *)
(* coincides with a test on contiguous tokens.                             *)
(***************************************************************************)
EXTENDS Integers, Sequences, FiniteSets, TLC

(* ------------------------------ bounds -------------------------------- *)
MaxTextLen == 3

(* ------------------------- program constants -------------------------- *)
DefaultScore == 4
MinScore == 1
MaxScore == 7

(***************************************************************************)
(*                      PART 1 -- the score parser                          *)
(***************************************************************************)
DQ == "\""
MyAnswerIs == "My answer is:"
INeedToAnalyze == "I need to analyze"
LetMeAnalyze == "Let me analyze"
FinalAnswer == "Final answer:"
ThereforeScore == "Therefore, the score is"

DigitTokens == {"0", "1", "2", "3", "4", "5", "6", "7", "8", "9"}

DigitVal(tok) ==
    CASE tok = "0" -> 0 [] tok = "1" -> 1 [] tok = "2" -> 2 [] tok = "3" -> 3
      [] tok = "4" -> 4 [] tok = "5" -> 5 [] tok = "6" -> 6 [] tok = "7" -> 7
      [] tok = "8" -> 8 [] tok = "9" -> 9

(* one token for a run of 310 nines: re's \d+ takes it as digits, and        *)
(* float() of a run that holds it is inf                                    *)
LongDigitRun == "99...9 (310 digits)"

IsDigit(tok) == tok \in DigitTokens \cup { LongDigitRun }

IsSpace(tok) == tok = " "

(* the phrases of score_keywords, in the order of the dict literal *)
score_keywords ==
    [ k \in { "extremely relevant", "very relevant", "moderately relevant",
              "somewhat relevant", "slightly relevant",
              "very slightly relevant", "not relevant" } |->
        CASE k = "extremely relevant"     -> 7
          [] k = "very relevant"          -> 6
          [] k = "moderately relevant"    -> 5
          [] k = "somewhat relevant"      -> 4
          [] k = "slightly relevant"      -> 3
          [] k = "very slightly relevant" -> 2
          [] k = "not relevant"           -> 1 ]

(* str.lower() on a token: only the tokens with upper-case letters that a   *)
(* later test looks at are listed; every other token has no keyword in it.  *)
Lower(tok) ==
    CASE tok = "Extremely Relevant" -> "extremely relevant"
      [] tok = "NOT RELEVANT"       -> "not relevant"
      [] OTHER                      -> tok

(* keyword in token, by characters: a phrase token contains itself, and      *)
(* "very slightly relevant" also contains "slightly relevant".              *)
KeywordInToken(keyword, tok) ==
    \/ tok = keyword
    \/ tok = "very slightly relevant" /\ keyword = "slightly relevant"

(* keyword in lower_text *)
KeywordIn(keyword, text) ==
    \E i \in 1..Len(text) : KeywordInToken(keyword, Lower(text[i]))

(* marker in result_text *)
TokenIn(tok, text) == \E i \in 1..Len(text) : text[i] = tok

(* str.strip(): leading and trailing whitespace removed *)
RECURSIVE LStrip(_)
LStrip(text) ==
    IF text # <<>> /\ IsSpace(Head(text)) THEN LStrip(Tail(text)) ELSE text

RECURSIVE RStrip(_)
RStrip(text) ==
    IF text # <<>> /\ IsSpace(text[Len(text)])
    THEN RStrip(SubSeq(text, 1, Len(text) - 1)) ELSE text

Strip(text) == RStrip(LStrip(text))

(* str.rstrip('.') *)
RECURSIVE RStripDots(_)
RStripDots(text) ==
    IF text # <<>> /\ text[Len(text)] = "."
    THEN RStripDots(SubSeq(text, 1, Len(text) - 1)) ELSE text

(* text.split(marker)[-1]: what follows the last occurrence of the marker *)
AfterLast(text, marker) ==
    LET idx == { i \in 1..Len(text) : text[i] = marker }
        last == CHOOSE i \in idx : \A j \in idx : j <= i
    IN  SubSeq(text, last + 1, Len(text))

(* value of a run of decimal digits *)
RECURSIVE DigitsValue(_)
DigitsValue(ds) ==
    IF ds = <<>> THEN 0
    ELSE 10 * DigitsValue(SubSeq(ds, 1, Len(ds) - 1)) + DigitVal(ds[Len(ds)])

AllDigits(ds) == \A i \in 1..Len(ds) : IsDigit(ds[i])

(* the digits spell a number beyond the largest float *)
Overflows(ds) == \E i \in 1..Len(ds) : ds[i] = LongDigitRun

(***************************************************************************)
(* float(text): Python's float literal on a stripped text.                 *)
(*   [sign] (digits [. digits*] | . digits) | [sign] inf | [sign] nan      *)
(* kind "num" carries the sign and the integer part (int() truncates       *)
(* toward zero, so the fraction never matters).                            *)
(***************************************************************************)
FloatParts(neg, body, dots, ip, fp) ==
    IF body \in { <<"inf">>, <<"Infinity">> }
      THEN [kind |-> "inf", neg |-> neg, ip |-> 0]
    ELSE IF body \in { <<"nan">>, <<"NaN">> }
      THEN [kind |-> "nan", neg |-> neg, ip |-> 0]
    ELSE IF /\ Cardinality(dots) <= 1
            /\ AllDigits(ip) /\ AllDigits(fp)
            /\ Len(ip) + Len(fp) >= 1
      THEN IF Overflows(ip) THEN [kind |-> "inf", neg |-> neg, ip |-> 0]
           ELSE [kind |-> "num", neg |-> neg, ip |-> DigitsValue(ip)]
    ELSE [kind |-> "invalid", neg |-> neg, ip |-> 0]

(* the integer part before, the fraction after the point at dot *)
FloatSplit(neg, body, dots, dot) ==
    FloatParts(neg, body, dots,
               SubSeq(body, 1, dot - 1), SubSeq(body, dot + 1, Len(body)))

FloatPoint(neg, body, dots) ==
    FloatSplit(neg, body, dots,
               IF dots = {} THEN Len(body) + 1 ELSE CHOOSE i \in dots : TRUE)

FloatSigned(neg, body) ==
    FloatPoint(neg, body, { i \in 1..Len(body) : body[i] = "." })

FloatStripped(t) ==
    IF t # <<>> /\ Head(t) = "-" THEN FloatSigned(TRUE, Tail(t))
                                 ELSE FloatSigned(FALSE, t)

FloatOf(text) == FloatStripped(Strip(text))

(* int(f): a value, or the exception the conversion raises *)
IntOf(f) ==
    CASE f.kind = "invalid" -> [exc |-> "ValueError", v |-> 0]
      [] f.kind = "nan"     -> [exc |-> "ValueError", v |-> 0]
      [] f.kind = "inf"     -> [exc |-> "OverflowError", v |-> 0]
      [] f.kind = "num"     ->
            [exc |-> "none", v |-> IF f.neg THEN 0 - f.ip ELSE f.ip]

(* int(float(text)) *)
IntOfFloat(text) == IntOf(FloatOf(text))

(* max(1, min(7, score)) *)
Min(a, b) == IF a < b THEN a ELSE b
Max(a, b) == IF a > b THEN a ELSE b
Clamp(score) == Max(MinScore, Min(MaxScore, score))

(* re.findall(r'\d+', text)[0]: the first maximal run of digits, <<>> if none *)
FirstDigitRun(text) ==
    LET ds == { i \in 1..Len(text) : IsDigit(text[i]) }
    IN  IF ds = {} THEN <<>>
        ELSE LET a == CHOOSE i \in ds : \A j \in ds : i <= j
                 e == CHOOSE i \in a..Len(text) :
                        /\ \A j \in a..i : IsDigit(text[j])
                        /\ (i = Len(text) \/ ~IsDigit(text[i + 1]))
             IN  SubSeq(text, a, e)

(***************************************************************************)
(* json.loads(text) on a token sequence.  A value is described by its type  *)
(* t (a string whose content float() accepts is "strnum" or "strinf"), a    *)
(* number n (bool as 0/1, integer part of a number) and, for an             *)
(* object, the type st and number sn of its last "score" member ("absent"   *)
(* when it has none).  Each operator returns [ok, next, t, n, st, sn] where *)
(* next is the index after the value.                                      *)
(***************************************************************************)
JFail == [ok |-> FALSE, next |-> 1, t |-> "none", n |-> 0, st |-> "absent", sn |-> 0]

JVal(next, t, n) ==
    [ok |-> TRUE, next |-> next, t |-> t, n |-> n, st |-> "absent", sn |-> 0]

RECURSIVE JSkip(_, _)
JSkip(s, i) == IF i <= Len(s) /\ IsSpace(s[i]) THEN JSkip(s, i + 1) ELSE i

(* index of the closing quote of the string that opens at i, 0 if none *)
JStringEnd(s, i) ==
    LET qs == { j \in (i + 1)..Len(s) : s[j] = DQ }
    IN  IF qs = {} THEN 0 ELSE CHOOSE j \in qs : \A k \in qs : j <= k

(* -? digits+ (. digits+)? starting at i; 0 if no number starts there *)
JNumberEnd(s, i) ==
    LET a  == IF i <= Len(s) /\ s[i] = "-" THEN i + 1 ELSE i
        e1 == CHOOSE e \in (a - 1)..Len(s) :
                /\ \A j \in a..e : IsDigit(s[j])
                /\ (e = Len(s) \/ ~IsDigit(s[e + 1]))
        e2 == IF e1 + 1 <= Len(s) /\ s[e1 + 1] = "."
              THEN CHOOSE e \in (e1 + 1)..Len(s) :
                     /\ \A j \in (e1 + 2)..e : IsDigit(s[j])
                     /\ (e = Len(s) \/ ~IsDigit(s[e + 1]))
              ELSE e1
    IN  IF e1 < a THEN 0
        ELSE IF e2 = e1 + 1 THEN 0
        ELSE e2

RECURSIVE JValue(_, _)
RECURSIVE JElements(_, _)
RECURSIVE JMembers(_, _, _, _)

(* a string that opens at i and closes at e *)
JString(s, i, e) ==
    LET f == IntOfFloat(SubSeq(s, i + 1, e - 1))
    IN  IF e = 0 THEN JFail
        ELSE IF f.exc = "none" THEN JVal(e + 1, "strnum", f.v)
        ELSE IF f.exc = "OverflowError" THEN JVal(e + 1, "strinf", 0)
        ELSE JVal(e + 1, "str", 0)

(* a number that starts at i and ends at e *)
JNumber(s, i, e) ==
    LET neg == s[i] = "-"
        a == IF neg THEN i + 1 ELSE i
        dots == { j \in a..e : s[j] = "." }
        d == IF dots = {} THEN e + 1 ELSE CHOOSE j \in dots : TRUE
        v == DigitsValue(SubSeq(s, a, d - 1))
    IN  IF e = 0 THEN JFail
        ELSE IF Overflows(SubSeq(s, a, d - 1)) THEN JVal(e + 1, "inf", 0)
        ELSE JVal(e + 1, "num", IF neg THEN 0 - v ELSE v)

(* "[" at i, the next token that is no space at j *)
JArray(s, i, j) ==
    IF j <= Len(s) /\ s[j] = "]" THEN JVal(j + 1, "arr", 0)
    ELSE JElements(s, i + 1)

(* "{" at i, the next token that is no space at j *)
JObject(s, i, j) ==
    IF j <= Len(s) /\ s[j] = "}" THEN JVal(j + 1, "obj", 0)
    ELSE JMembers(s, i + 1, "absent", 0)

(* the value that starts at i, which is no space *)
JValueAt(s, i) ==
    IF i > Len(s) THEN JFail
    ELSE CASE s[i] = "true"     -> JVal(i + 1, "bool", 1)
           [] s[i] = "false"    -> JVal(i + 1, "bool", 0)
           [] s[i] = "null"     -> JVal(i + 1, "null", 0)
           [] s[i] = "NaN"      -> JVal(i + 1, "nan", 0)
           [] s[i] = "Infinity" -> JVal(i + 1, "inf", 0)
           [] s[i] = "-" /\ i < Len(s) /\ s[i + 1] = "Infinity" ->
                                   JVal(i + 2, "inf", 0)
           [] s[i] = DQ -> JString(s, i, JStringEnd(s, i))
           [] s[i] = "[" -> JArray(s, i, JSkip(s, i + 1))
           [] s[i] = "{" -> JObject(s, i, JSkip(s, i + 1))
           [] OTHER -> JNumber(s, i, JNumberEnd(s, i))

JValue(s, i0) == JValueAt(s, JSkip(s, i0))

(* after an element: "]" ends the array, "," brings the next element *)
JElementsNext(s, j) ==
    IF j > Len(s) THEN JFail
    ELSE IF s[j] = "]" THEN JVal(j + 1, "arr", 0)
    ELSE IF s[j] = "," THEN JElements(s, j + 1)
    ELSE JFail

JElementsAfter(s, v) ==
    IF ~v.ok THEN JFail ELSE JElementsNext(s, JSkip(s, v.next))

(* value (, value)* ] *)
JElements(s, i) == JElementsAfter(s, JValue(s, i))

(* after a member: "}" ends the object, "," brings the next member *)
JMembersNext(s, j, st, sn) ==
    IF j > Len(s) THEN JFail
    ELSE IF s[j] = "}"
         THEN [ok |-> TRUE, next |-> j + 1, t |-> "obj", n |-> 0,
               st |-> st, sn |-> sn]
    ELSE IF s[j] = "," THEN JMembers(s, j + 1, st, sn)
    ELSE JFail

(* the member's value v is read: a member named "score" replaces st, sn *)
JMemberValue(s, isScore, v, st, sn) ==
    IF ~v.ok THEN JFail
    ELSE JMembersNext(s, JSkip(s, v.next),
                      IF isScore THEN v.t ELSE st,
                      IF isScore THEN v.n ELSE sn)

(* the key spans i..e; c is where the colon must stand *)
JMemberColon(s, i, e, c, st, sn) ==
    IF c > Len(s) THEN JFail
    ELSE IF s[c] # ":" THEN JFail
    ELSE JMemberValue(s, SubSeq(s, i + 1, e - 1) = <<"score">>,
                      JValue(s, c + 1), st, sn)

JMemberKey(s, i, e, st, sn) ==
    IF e = 0 THEN JFail ELSE JMemberColon(s, i, e, JSkip(s, e + 1), st, sn)

JMemberAt(s, i, st, sn) ==
    JMemberKey(s, i, IF i <= Len(s) /\ s[i] = DQ THEN JStringEnd(s, i) ELSE 0,
               st, sn)

(* string : value (, string : value)* }   -- st, sn: "score" seen so far *)
JMembers(s, i0, st, sn) == JMemberAt(s, JSkip(s, i0), st, sn)

JsonLoadsEnd(text, v) ==
    IF ~v.ok THEN JFail
    ELSE IF JSkip(text, v.next) > Len(text) THEN v ELSE JFail

(* json.loads: one value and nothing but whitespace after it *)
JsonLoads(text) == JsonLoadsEnd(text, JValue(text, 1))

(* int(float(result.get("score", 4))) on a decoded value: the value, or the  *)
(* exception raised (AttributeError when the value is no dict, TypeError /  *)
(* ValueError / OverflowError when the member is no finite number).        *)
JsonScore(v) ==
    CASE v.t # "obj"      -> [exc |-> "AttributeError", v |-> 0]
      [] v.st = "absent"  -> [exc |-> "none", v |-> DefaultScore]
      [] v.st = "bool"    -> [exc |-> "none", v |-> v.sn]
      [] v.st = "num"     -> [exc |-> "none", v |-> v.sn]
      [] v.st = "nan"     -> [exc |-> "ValueError", v |-> 0]
      [] v.st = "inf"     -> [exc |-> "OverflowError", v |-> 0]
      [] v.st = "str"     -> [exc |-> "ValueError", v |-> 0]
      [] v.st = "strnum"  -> [exc |-> "none", v |-> v.sn]
      [] v.st = "strinf"  -> [exc |-> "OverflowError", v |-> 0]
      [] OTHER            -> [exc |-> "TypeError", v |-> 0]

(* provider == "google" and ("thinking" in model or model.startswith("gemini-2")) *)
GoogleThinkingModels == { "gemini-2.0-flash", "gemini-2.5-flash-exp-native-audio-thinking-dialog" }

IsGoogleThinking(provider, model) ==
    provider = "google" /\ model \in GoogleThinkingModels

(* the Google thinking clean-up, lines 1465-1479 *)
StripThinking(t1, provider, model) ==
    IF /\ IsGoogleThinking(provider, model)
       /\ (TokenIn(INeedToAnalyze, t1) \/ TokenIn(LetMeAnalyze, t1))
    THEN IF TokenIn(FinalAnswer, t1)
           THEN Strip(AfterLast(t1, FinalAnswer))
         ELSE IF TokenIn(ThereforeScore, t1)
           THEN Strip(RStripDots(Strip(AfterLast(t1, ThereforeScore))))
         ELSE t1
    ELSE t1

(* the "My answer is:" clean-up, lines 1459-1463, then the thinking one *)
StripMarkers(text, provider, model) ==
    StripThinking(IF TokenIn(MyAnswerIs, text)
                  THEN Strip(AfterLast(text, MyAnswerIs)) ELSE text,
                  provider, model)

(* the comparison of line 1546 turned round: the lowest match is kept *)
KeywordScoreLowest(text) ==
    LET hits == { k \in DOMAIN score_keywords : KeywordIn(k, text) }
    IN  IF hits = {} THEN DefaultScore
        ELSE LET worst == CHOOSE k \in hits :
                            \A h \in hits : score_keywords[k] <= score_keywords[h]
             IN  score_keywords[worst]

(* the keyword fallback, lines 1528-1555 *)
KeywordScore(text) ==
    LET hits == { k \in DOMAIN score_keywords : KeywordIn(k, text) }
    IN  IF hits = {} THEN DefaultScore
        ELSE LET best == CHOOSE k \in hits :
                           \A h \in hits : score_keywords[h] <= score_keywords[k]
             IN  score_keywords[best]

Returned(v) == [exc |-> "none", v |-> v]

(* lines 1528-1555: the decoded JSON gave a score, or raised *)
ParseJsonScore(jscore) ==
    IF jscore.exc = "none" THEN Returned(Clamp(jscore.v)) ELSE jscore

(* lines 1512-1555: JSON, and the keywords when the text is no JSON *)
ParseJson(text, js) ==
    IF js.ok THEN ParseJsonScore(JsonScore(js))
    ELSE Returned(KeywordScore(text))

(* lines 1499-1510: the first run of digits *)
ParseFirstNumber(text, first) ==
    IF first.exc = "none" THEN Returned(Clamp(first.v))
    ELSE IF first.exc # "ValueError" THEN first
    ELSE ParseJson(text, JsonLoads(text))

ParseNumbers(text, run) ==
    IF run # <<>> THEN ParseFirstNumber(text, IntOfFloat(run))
    ELSE ParseJson(text, JsonLoads(text))

(* lines 1485-1497: the whole text as a number *)
ParseDirect(text, direct) ==
    IF direct.exc = "none" THEN Returned(Clamp(direct.v))
    ELSE IF direct.exc # "ValueError" THEN direct
    ELSE ParseNumbers(text, FirstDigitRun(text))

ParseText(text) == ParseDirect(text, IntOfFloat(text))

(* the body of the outer try of _parse_result, lines 1449-1555: the value    *)
(* returned, or the exception that leaves the body                          *)
ParseBody(result_text, provider, model) ==
    IF result_text = <<>> \/ Strip(result_text) = <<>> THEN Returned(DefaultScore)
    ELSE ParseText(Strip(StripMarkers(result_text, provider, model)))

(* except Exception as e: return 4, lines 1557-1560 *)
PythonExceptions == { "ValueError", "OverflowError", "AttributeError", "TypeError" }

CaughtOnlyValueError(exc) == exc = "ValueError"
CaughtByExceptException(exc) == exc \in PythonExceptions

ExceptHandler(r) ==
    IF r.exc = "none" THEN r
    ELSE IF CaughtByExceptException(r.exc) THEN Returned(DefaultScore)
    ELSE r

ParseOutcome(result_text, provider, model) ==
    ExceptHandler(ParseBody(result_text, provider, model))

_parse_result(result_text, provider, model) ==
    ParseOutcome(result_text, provider, model).v

(***************************************************************************)
(*      PART 2 -- progress = int((completed_tasks / total_tasks) * 100)     *)
(* IEEE-754 binary64 arithmetic on bit sequences (most significant bit      *)
(* first).  A float is [m, e]: a 53-bit significand m and the exponent e of *)
(* its last bit, value = m * 2^e.  Both operations round to nearest, ties   *)
(* to even, as Python's int/int true division and float multiplication do. *)
(***************************************************************************)
Precision == 53
Hundred == 100

(* number of zero bits before the first one bit of r / t, 0 < r < t *)
RECURSIVE LeadingZeros(_, _)
LeadingZeros(r, t) == IF 2 * r >= t THEN 0 ELSE 1 + LeadingZeros(2 * r, t)

(* long division: rem[k] is the remainder of c * 2^k by t, and bit k of the  *)
(* binary expansion of c / t is 1 iff 2 * rem[k-1] >= t                     *)
DivRem(c, t, n) ==
    LET rem[k \in 0..n] == IF k = 0 THEN c % t ELSE (2 * rem[k - 1]) % t
    IN  [k \in 0..n |-> rem[k]]

(* bits + 1 on a sequence that is not all ones *)
Increment(bits) ==
    LET zeros == { i \in 1..Len(bits) : bits[i] = 0 }
        j     == CHOOSE i \in zeros : \A k \in zeros : k <= i
    IN  [i \in 1..Len(bits) |-> IF i < j THEN bits[i] ELSE IF i = j THEN 1 ELSE 0]

(* round a significand of more than 53 bits (its last bit has exponent e,   *)
(* sticky: a non-zero part lies beyond it) to 53 bits, nearest-even         *)
RoundNearestEven(bits, e, sticky) ==
    LET n     == Len(bits)
        keep  == SubSeq(bits, 1, Precision)
        guard == bits[Precision + 1]
        rest  == sticky \/ \E i \in (Precision + 2)..n : bits[i] = 1
        up    == guard = 1 /\ (rest \/ keep[Precision] = 1)
        ones  == \A i \in 1..Precision : keep[i] = 1
    IN  IF ~up THEN [m |-> keep, e |-> e + (n - Precision)]
        ELSE IF ones
             THEN [m |-> [i \in 1..Precision |-> IF i = 1 THEN 1 ELSE 0],
                   e |-> e + (n - Precision) + 1]
        ELSE [m |-> Increment(keep), e |-> e + (n - Precision)]

(* completed_tasks / total_tasks for 0 < c <= t *)
FloatDiv(c, t) ==
    IF c = t THEN [m |-> [i \in 1..Precision |-> IF i = 1 THEN 1 ELSE 0],
                   e |-> 1 - Precision]
    ELSE LET z    == LeadingZeros(c, t)
             n    == z + Precision + 1
             rem  == DivRem(c, t, n)
             bits == [i \in 1..(Precision + 1) |->
                        IF 2 * rem[z + i - 1] >= t THEN 1 ELSE 0]
         IN  RoundNearestEven(bits, 0 - n, rem[n] # 0)

(* binary digits of a small natural number, <<>> for 0 *)
RECURSIVE NatBits(_)
NatBits(n) == IF n = 0 THEN <<>> ELSE NatBits(n \div 2) \o <<n % 2>>

(* bits * k, exactly: carry[j] is the carry out of the j lowest bits *)
MulBits(bits, k) ==
    LET n == Len(bits)
        carry[j \in 0..n] ==
            IF j = 0 THEN 0 ELSE (bits[n - j + 1] * k + carry[j - 1]) \div 2
        cs == [j \in 0..n |-> carry[j]]
        low == [i \in 1..n |-> (bits[i] * k + cs[n - i]) % 2]
    IN  NatBits(cs[n]) \o low

(* f * 100 *)
FloatMul100(f) ==
    LET prod == MulBits(f.m, Hundred)
    IN  RoundNearestEven(prod, f.e, FALSE)

RECURSIVE BitsValue(_)
BitsValue(bits) ==
    IF bits = <<>> THEN 0
    ELSE 2 * BitsValue(SubSeq(bits, 1, Len(bits) - 1)) + bits[Len(bits)]

(* int(f) for 0 <= f < 2^31: the bits above exponent 0 *)
FloatToInt(f) ==
    IF Precision + f.e <= 0 THEN 0
    ELSE BitsValue(SubSeq(f.m, 1, Precision + f.e))

(* the exact quotient, what the float expression is meant to compute *)
ProgressExact(completed, total) == (completed * Hundred) \div total

(* progress = int((completed_tasks / total_tasks) * 100), line 118 *)
Progress(completed, total) == FloatToInt(FloatMul100(FloatDiv(completed, total)))

(***************************************************************************)
(*                 Inputs of the parser specification                       *)
(***************************************************************************)
ParseAlphabet ==
    { "0", "3", "4", "6", "9", ".", "-", " ", "x", "inf", "nan",
      "extremely relevant", "very relevant", "moderately relevant",
      "somewhat relevant", "slightly relevant", "very slightly relevant",
      "not relevant", "Extremely Relevant",
      MyAnswerIs, INeedToAnalyze, LetMeAnalyze, FinalAnswer, ThereforeScore }

ShortTexts == UNION { [1..n -> ParseAlphabet] : n \in 0..MaxTextLen }

JsonAtoms ==
    { <<"true">>, <<"false">>, <<"null">>, <<"NaN">>, <<"Infinity">>,
      <<"-", "Infinity">>, <<DQ, "x", DQ>>, <<DQ, "extremely relevant", DQ>>,
      <<DQ, "inf", DQ>>, <<"[", "]">>, <<"{", "}">>, <<"[", "true", "]">>,
      <<"6">>, <<"4", ".", "6">> }

JsonObject(key, val) == <<"{", DQ, key, DQ, ":", " ">> \o val \o <<"}">>

JsonObjects ==
    { JsonObject(k, v) : k \in {"score", "explanation"}, v \in JsonAtoms }

JsonTexts ==
    JsonAtoms \cup JsonObjects
      \cup { <<"[">> \o v \o <<",", "null", "]">> : v \in JsonAtoms }
      \cup { <<"{", DQ, "score", DQ, ":">> \o v \o
             <<",", DQ, "explanation", DQ, ":", DQ, "very relevant", DQ, "}">> :
             v \in JsonAtoms }
      \cup { o \o <<" ", "not relevant">> : o \in JsonObjects }
      \cup { SubSeq(o, 1, Len(o) - 1) : o \in JsonObjects }

(* the examples of the specification's section 8, and thinking-style replies *)
ExampleTexts ==
    { <<"Score:", " ", "6", " ", "out of", " ", "7">>,
      <<"This paper is", " ", "extremely relevant", " ", "to the topic">>,
      <<"not relevant", " ", "at all">>,
      <<"-", "3">>, <<"4", ".", "6">>, <<"9">>,
      <<LetMeAnalyze, " ", "3", " ", FinalAnswer, " ", "6">>,
      <<INeedToAnalyze, " ", "x", " ", ThereforeScore, " ", "6", ".">>,
      <<"x", " ", MyAnswerIs, " ", "very slightly relevant">>,
      <<"NOT RELEVANT">>,
      <<LongDigitRun>>, <<"Score:", " ", LongDigitRun>>,
      <<"6", ".", "5">>, <<"-", "0", ".", "6">>,
      <<DQ, "not relevant", DQ>>,
      <<"{", DQ, "explanation", DQ, ":", " ", DQ, "not relevant", DQ, "}">> }

ParseTexts == ShortTexts \cup JsonTexts \cup ExampleTexts

(* the processors that differ in the parser's provider/model test *)
ParseProcessors ==
    { <<"google", "gemini-2.0-flash">>, <<"google", "gemini-1.5-flash">>,
      <<"openai", "gpt-4.1">> }

(***************************************************************************)
(* PART 3 - a batch run: ProcessingThread.run, the provider calls of       *)
(*          AIProcessor, and the stop request of the main window           *)
(***************************************************************************)
MaxRows == 2
MaxIterations == 2
MaxProgressRows == 10
MaxProgressIterations == 5

ShortDelay == 2
LongDelay == 20
MinThreshold == 1
MaxThreshold == 7

(* ---- the dataset: load_excel_data gives one dict per row, all rows with  *)
(* ---- the same keys; a blank cell is the float nan                        *)
Missing == "<missing>"
NaN == "<nan>"
SomeText == "<text>"

(* str(original_row.get(col, '')) *)
StrOf(cell) ==
    CASE cell = Missing -> ""
      [] cell = NaN     -> "nan"
      [] OTHER          -> "text"

RowsWith(title_in, abstract_in) ==
    { [title |-> t, abstract |-> a] :
        t \in (IF title_in THEN {NaN, SomeText} ELSE {Missing}),
        a \in (IF abstract_in THEN {NaN, SomeText} ELSE {Missing}) }

Datasets(n) ==
    UNION { [1..m -> RowsWith(ti, ai)] :
              m \in 0..n, ti \in BOOLEAN, ai \in BOOLEAN }

TextRow == [title |-> SomeText, abstract |-> SomeText]
AbsentRow == [title |-> Missing, abstract |-> Missing]

(* ---- providers ---------------------------------------------------------- *)
DispatchedProviders ==
    { "openai", "anthropic", "google", "deepseek", "mistral", "cohere",
      "azure-openai" }
(* a configuration file may list a provider the dispatch does not know *)
ConfigProviders == DispatchedProviders \cup { "custom" }
ActiveProvider == "openai"

ResolveProvider(provider) ==
    IF provider \in ConfigProviders THEN provider ELSE ActiveProvider

ReasoningModels == { "o1-mini", "o3-mini" }

(* which scoring method serves the call *)
Handler(provider, model, use_prompt) ==
    CASE provider \notin DispatchedProviders -> "unsupported"
      [] provider = "openai" /\ use_prompt /\ model \in ReasoningModels
                                                -> "openai_reasoning"
      [] provider = "openai" /\ ~use_prompt /\ model = "o1-mini"
                                                -> "o1_mini"
      [] OTHER -> provider

(* provider, model, and whether an SDK client could be built *)
Variants ==
    { [provider |-> "openai",       model |-> "gpt-4.1",          client |-> TRUE],
      [provider |-> "openai",       model |-> "gpt-4.1",          client |-> FALSE],
      [provider |-> "openai",       model |-> "o1-mini",          client |-> TRUE],
      [provider |-> "openai",       model |-> "o1-mini",          client |-> FALSE],
      [provider |-> "openai",       model |-> "o3-mini",          client |-> TRUE],
      [provider |-> "anthropic",    model |-> "claude-3-7",       client |-> TRUE],
      [provider |-> "anthropic",    model |-> "claude-3-7",       client |-> FALSE],
      [provider |-> "google",       model |-> "gemini-2.0-flash", client |-> TRUE],
      [provider |-> "google",       model |-> "gemini-2.0-flash", client |-> FALSE],
      [provider |-> "deepseek",     model |-> "deepseek-reasoner", client |-> TRUE],
      [provider |-> "mistral",      model |-> "mistral-large",    client |-> TRUE],
      [provider |-> "cohere",       model |-> "command-r",        client |-> TRUE],
      [provider |-> "azure-openai", model |-> "gpt-4",            client |-> TRUE],
      [provider |-> "custom",       model |-> "custom-model",     client |-> TRUE],
      [provider |-> "unlisted",     model |-> "gpt-4.1",          client |-> TRUE] }

(* what one request can come back with *)
Outcomes ==
    { "ok", "bad_shape", "rate_limit", "model_not_found", "auth", "auth_400",
      "bad_request", "server_error", "transport" }

(* the reply texts of the runs *)
ResponseTexts == { <<"6">>, <<"not relevant">> }

(* ---- what a scoring method does next ------------------------------------ *)
IntValue(n) == [t |-> "int", v |-> n]
FloatZero == [t |-> "float", v |-> 0]
StrValue == [t |-> "str", v |-> 0]

Return(value, model) == [to |-> "returned", value |-> value, d |-> 0, model |-> model]
SleepThen(d, model) == [to |-> "sleeping", value |-> IntValue(0), d |-> d, model |-> model]
Goto(stage, model) == [to |-> stage, value |-> IntValue(0), d |-> 0, model |-> model]

(* "429" in error_message or "rate limit" in error_message.lower() *)
RetryDelay(outcome) == IF outcome = "rate_limit" THEN LongDelay ELSE ShortDelay

(* word boundaries of re.search(r'\b([1-7])\b', result) *)
NonWordTokens == { " ", ".", "-", ",", ":", "{", "}", "[", "]", DQ }
StartsWithWordChar(tok) == tok \notin NonWordTokens
EndsWithWordChar(tok) ==
    tok \notin (NonWordTokens \cup { MyAnswerIs, FinalAnswer, "Score:" })

ReasoningScore(text, provider, model) ==
    LET hits == { k \in 1..Len(text) :
                    /\ text[k] \in DigitTokens
                    /\ DigitVal(text[k]) \in MinScore..MaxScore
                    /\ (k > 1 => ~EndsWithWordChar(text[k - 1]))
                    /\ (k < Len(text) => ~StartsWithWordChar(text[k + 1])) }
    IN  IF hits # {}
        THEN DigitVal(text[CHOOSE k \in hits : \A h \in hits : k <= h])
        ELSE _parse_result(text, provider, model)

(* _get_score_openai, _get_score_with_prompt_openai, and the azure pair *)
OpenAIStandard(outcome, text, provider, model) ==
    IF outcome = "ok"
    THEN Return(IntValue(_parse_result(text, provider, model)), model)
    ELSE SleepThen(RetryDelay(outcome), model)

(* _get_score_with_prompt_openai_reasoning: the first request *)
OpenAIReasoning(outcome, text, provider, model) ==
    CASE outcome = "ok" ->
           Return(IntValue(ReasoningScore(text, provider, model)), model)
      [] outcome = "model_not_found" -> Goto("model_fallback", "gpt-4o")
      [] outcome = "rate_limit" -> SleepThen(LongDelay, model)
      [] OTHER -> Return(IntValue(DefaultScore), model)

(* ... and its request to the substitute model; the model id is restored *)
OpenAIFallback(outcome, text, provider, original_model) ==
    IF outcome = "ok"
    THEN Return(IntValue(_parse_result(text, provider, original_model)),
                original_model)
    ELSE Return(IntValue(DefaultScore), original_model)

(* _get_score_o1_mini returns the extracted text itself *)
O1Mini(outcome, model) ==
    IF outcome \in { "ok", "bad_shape" }
    THEN Return(StrValue, model)
    ELSE Return(IntValue(DefaultScore), model)

(* an SDK failure handled like a failure of the REST request: sleep, retry *)
AnthropicSDKRetries(outcome, text, provider, model) ==
    IF outcome = "ok"
    THEN Return(IntValue(_parse_result(text, provider, model)), model)
    ELSE SleepThen(RetryDelay(outcome), model)

(* anthropic: the SDK request; any failure falls through to the REST request *)
AnthropicSDK(outcome, text, provider, model) ==
    IF outcome = "ok"
    THEN Return(IntValue(_parse_result(text, provider, model)), model)
    ELSE Goto("rest_fallback", model)

AnthropicREST(outcome, text, provider, model) ==
    CASE outcome = "ok" ->
           Return(IntValue(_parse_result(text, provider, model)), model)
      [] outcome = "bad_shape" -> Goto("attempt", model)
      [] OTHER -> SleepThen(RetryDelay(outcome), model)

Google(outcome, text, provider, model) ==
    CASE outcome = "ok" ->
           Return(IntValue(_parse_result(text, provider, model)), model)
      [] outcome = "model_not_found" ->
           Return(IntValue(DefaultScore), "gemini-1.5-flash")
      [] OTHER -> Return(IntValue(DefaultScore), model)

DeepSeek(outcome, text, provider, model, use_prompt) ==
    CASE outcome = "ok" ->
           Return(IntValue(_parse_result(text, provider, model)), model)
      [] outcome = "bad_shape" ->
           IF use_prompt THEN SleepThen(ShortDelay, model)
                         ELSE Goto("attempt", model)
      [] outcome = "model_not_found" -> Goto("attempt", "deepseek-chat")
      [] outcome = "auth_400" -> Return(IntValue(DefaultScore), model)
      [] OTHER -> SleepThen(RetryDelay(outcome), model)

(* mistral and cohere: a 200 body without the expected keys reads as "" *)
PlainREST(outcome, text, provider, model) ==
    CASE outcome = "ok" ->
           Return(IntValue(_parse_result(text, provider, model)), model)
      [] outcome = "bad_shape" ->
           Return(IntValue(_parse_result(<<>>, provider, model)), model)
      [] OTHER -> SleepThen(RetryDelay(outcome), model)

OutcomesOf(handler) ==
    IF handler = "deepseek" THEN Outcomes
    ELSE Outcomes \ { "auth_400", "bad_request" }

WellBehaved == { "ok" }

(* the scoring method's reaction to the outcome of its request *)
AfterRequest(handler, client, outcome, text, provider, model, use_prompt) ==
    CASE handler \in { "openai", "azure-openai" } ->
           OpenAIStandard(outcome, text, provider, model)
      [] handler = "openai_reasoning" ->
           OpenAIReasoning(outcome, text, provider, model)
      [] handler = "o1_mini" -> O1Mini(outcome, model)
      [] handler = "anthropic" ->
           IF client THEN AnthropicSDK(outcome, text, provider, model)
                     ELSE AnthropicREST(outcome, text, provider, model)
      [] handler = "google" -> Google(outcome, text, provider, model)
      [] handler = "deepseek" ->
           DeepSeek(outcome, text, provider, model, use_prompt)
      [] OTHER -> PlainREST(outcome, text, provider, model)

(* the dispatch of get_relevance_score / get_relevance_score_with_prompt,   *)
(* up to the first request of the scoring method                            *)
EnterCall(handler, client, model) ==
    CASE handler = "unsupported" -> Return(FloatZero, model)
      [] handler \in { "google", "o1_mini" } /\ ~client ->
           Return(IntValue(DefaultScore), model)
      [] OTHER -> Goto("attempt", model)

(***************************************************************************)
(*                              State                                       *)
(***************************************************************************)
VARIABLES
    p_pc,            \* parser specification: "input" or "parsed"
    p_text,          \* the result_text handed to _parse_result
    p_proc,          \* <<provider, model>> of the processor that parses
    p_result,        \* the outcome of the call: [exc, v]
    params,          \* the thread's parameters, the input file, and what
                     \* the provider may answer during the run
    data,            \* the list of dicts load_excel_data returned
    pc,              \* where ProcessingThread.run stands
    iteration,       \* outer loop variable
    i,               \* inner loop variable (0-based row index)
    completed_tasks,
    total_tasks,
    progress,        \* the last computed percentage (line 118)
    processed_data,  \* the accumulator of results
    relevant_count,
    terminate_flag,
    events,          \* the signals emitted so far
    ai_provider,     \* AIProcessor.provider
    ai_model,        \* AIProcessor.model
    call_pc,         \* where the scoring call stands
    last_outcome,    \* outcome of the call's latest request
    waited,          \* seconds slept since that request
    delay,           \* the sleep in progress
    call_result,     \* the value the scoring call returned
    substituted,     \* history: "no", then "pending" once the call has put a
                     \* substitute model in place, then "tried" once a
                     \* request has been sent after that
    output,          \* what save_excel_data has written
    stop_requested,  \* the main window asked the thread to terminate
    stopped_at,      \* history: completed_tasks when it did so, else -1
    r_pc,            \* the rendering of one prompt: "off", "input", "rendered"
    prompt_template, \* self.prompt_template
    fields,          \* the record's cells: title, abstract, keywords, categories
    topic,           \* self.topic
    custom_prompt,   \* the prompt handed to the processor
    input_file_edit, \* main window: text of the input file field
    output_file_edit, \* main window: text of the output file field
    topic_edit,      \* main window: text of the topic field
    title_display,   \* main window: the mapped title column
    abstract_display, \* main window: the mapped abstract column
    start_button,    \* main window: the start button is enabled
    stop_button,     \* main window: the stop button is visible
    worker_thread,   \* main window: self.worker_thread, 0 for None, else
                     \* the position of the thread in threads
    threads,         \* every ProcessingThread constructed so far
    signals,         \* signals emitted by the threads and queued for the
                     \* main thread's event loop
    message,         \* the message box shown last
    aborted          \* the process was aborted by the Qt runtime

parseVars == <<p_pc, p_text, p_proc, p_result>>
renderVars == <<r_pc, prompt_template, fields, topic, custom_prompt>>
windowVars ==
    <<input_file_edit, output_file_edit, topic_edit, title_display,
      abstract_display, start_button, stop_button, worker_thread, threads,
      signals, message, aborted>>
loopVars == <<iteration, i, completed_tasks, total_tasks, progress>>
callVars == <<call_pc, last_outcome, waited, delay, call_result, substituted>>
uiVars == <<stop_requested, stopped_at>>
runVars ==
    <<params, data, pc, loopVars, processed_data, relevant_count, terminate_flag,
      events, ai_provider, ai_model, callVars, output, uiVars>>

vars == <<parseVars, renderVars, runVars, windowVars>>

NoOutput == [written |-> FALSE, rows |-> <<>>, processed |-> 0, relevant |-> 0,
             model |-> ""]

Signal(sig, a, b) == [sig |-> sig, a |-> a, b |-> b, row |-> 0]
(* file_processed.emit(f"{title}|{relevance_score}|... (Iteration #{iteration})"): *)
(* the row stands for its title                                             *)
FileProcessed(row, relevance_score, iter) ==
    [sig |-> "file_processed", a |-> relevance_score, b |-> iter, row |-> row]
Cancelled == Signal("cancelled", 0, 0)
ErrorOccurred == Signal("error_occurred", 0, 0)

ParseIdle ==
    /\ p_pc = "off" /\ p_text = <<>> /\ p_proc = <<"openai", "gpt-4.1">>
    /\ p_result = Returned(0)

NoFields == [title |-> <<>>, abstract |-> <<>>, keywords |-> <<>>,
             categories |-> <<>>]

RenderIdle ==
    /\ r_pc = "off" /\ prompt_template = <<>> /\ fields = NoFields
    /\ topic = <<>> /\ custom_prompt = <<>>

NoMessage == [kind |-> "none", relevant |-> 0, processed |-> 0, from |-> 0]

(* MainWindow.__init__: empty form, no worker, the start button enabled as   *)
(* QPushButton creates it, the stop button hidden                            *)
WindowIdle ==
    /\ input_file_edit = "" /\ output_file_edit = "" /\ topic_edit = ""
    /\ title_display = "" /\ abstract_display = ""
    /\ start_button = TRUE /\ stop_button = FALSE
    /\ worker_thread = 0 /\ threads = <<>> /\ signals = <<>>
    /\ message = NoMessage /\ aborted = FALSE

(* the thread as constructed, before run() *)
RunIdle ==
    /\ data = <<>>
    /\ pc = "start" /\ iteration = 0 /\ i = 0
    /\ completed_tasks = 0 /\ total_tasks = 0 /\ progress = 0
    /\ processed_data = <<>> /\ relevant_count = 0
    /\ terminate_flag = FALSE /\ events = <<>>
    /\ ai_provider = "" /\ ai_model = ""
    /\ call_pc = "idle" /\ last_outcome = "none" /\ waited = 0 /\ delay = 0
    /\ call_result = IntValue(0) /\ substituted = "no"
    /\ output = NoOutput /\ stop_requested = FALSE /\ stopped_at = -1

Params(variant, use_prompt, threshold, max_records, iterations, readable, file_rows, outcomes, replies) ==
    [provider |-> variant.provider, model |-> variant.model,
     client |-> variant.client, use_prompt |-> use_prompt,
     threshold |-> threshold, max_records |-> max_records,
     iterations |-> iterations, readable |-> readable, data |-> file_rows,
     outcomes |-> outcomes, replies |-> replies]

(* ---------------- the parser applied to one text ---------------------- *)
InitParse ==
    /\ p_pc = "input"
    /\ p_text \in ParseTexts
    /\ p_proc \in ParseProcessors
    /\ p_result = Returned(0)
    /\ params = Params([provider |-> "openai", model |-> "gpt-4.1",
                        client |-> TRUE], TRUE, DefaultScore, 0, 1, TRUE, <<>>,
                       {"ok"}, {<<"6">>})
    /\ RenderIdle
    /\ RunIdle
    /\ WindowIdle

Parse ==
    /\ p_pc = "input"
    /\ p_result' = ParseOutcome(p_text, p_proc[1], p_proc[2])
    /\ p_pc' = "parsed"
    /\ UNCHANGED <<p_text, p_proc, renderVars, runVars, windowVars>>

NextParse == Parse

SpecParse == InitParse /\ [][NextParse]_vars

(* ---------------- the prompt of one record ----------------------------- *)
MaxTemplateLen == 2

Placeholders ==
    { "{TITLE}", "{ABSTRACT}", "{KEYWORDS}", "{TOPIC}", "{CATEGORIES}" }

(* str(original_row.get(col, '')): a cell as the text the prompt receives *)
CellStr(cell) ==
    IF cell = <<Missing>> THEN <<>>
    ELSE IF cell = <<NaN>> THEN <<"nan">>
    ELSE cell

(* str.replace(old, new) for a placeholder: every occurrence, left to right *)
RECURSIVE Replace(_, _, _)
Replace(s, old, new) ==
    IF s = <<>> THEN <<>>
    ELSE (IF Head(s) = old THEN new ELSE <<Head(s)>>)
           \o Replace(Tail(s), old, new)

(* lines 163-169: five replacements, each on the result of the one before *)
RenderPrompt(template, title, abstract, keywords, the_topic, categories) ==
    Replace(Replace(Replace(Replace(Replace(template,
        "{TITLE}", title), "{ABSTRACT}", abstract), "{KEYWORDS}", keywords),
        "{TOPIC}", the_topic), "{CATEGORIES}", categories)

(* templates: a word and the placeholders; an empty template is not used    *)
(* (line 161)                                                               *)
TemplateTokens == Placeholders \cup { "Rate:" }
Templates ==
    UNION { [1..n -> TemplateTokens] : n \in 1..MaxTemplateLen }

(* cells: absent column, blank cell, plain text, and text that spells a     *)
(* placeholder                                                              *)
TitleCells == { <<Missing>>, <<NaN>>, <<"A study">>, <<"{ABSTRACT}">>, <<"{TOPIC}">> }
AbstractCells == { <<Missing>>, <<"We study">>, <<"{KEYWORDS}">>, <<"{TITLE}">> }
KeywordsCells == { <<"kw">>, <<"{TOPIC}">> }
CategoriesCells == { <<Missing>>, <<"cat">> }
Topics == { <<"ai">>, <<"{CATEGORIES}">> }

InitPrompt ==
    /\ ParseIdle
    /\ r_pc = "input"
    /\ prompt_template \in Templates
    /\ fields \in [title : TitleCells, abstract : AbstractCells,
                   keywords : KeywordsCells, categories : CategoriesCells]
    /\ topic \in Topics
    /\ custom_prompt = <<>>
    /\ params = Params([provider |-> "openai", model |-> "gpt-4.1",
                        client |-> TRUE], TRUE, DefaultScore, 0, 1, TRUE, <<>>,
                       {"ok"}, {<<"6">>})
    /\ RunIdle
    /\ WindowIdle

Render ==
    /\ r_pc = "input"
    /\ custom_prompt' =
         RenderPrompt(prompt_template, CellStr(fields.title),
                      CellStr(fields.abstract), CellStr(fields.keywords),
                      topic, CellStr(fields.categories))
    /\ r_pc' = "rendered"
    /\ UNCHANGED <<prompt_template, fields, topic, parseVars, runVars,
                   windowVars>>

NextPrompt == Render

SpecPrompt == InitPrompt /\ [][NextPrompt]_vars

(***************************************************************************)
(*                    ProcessingThread.run, step by step                    *)
(***************************************************************************)
MaxTotalTasks ==
    Max(MaxProgressRows * MaxProgressIterations, MaxRows * MaxIterations)

(* line 118 for every pair the runs can meet, computed once *)
ProgressTable ==
    [t \in 1..MaxTotalTasks |-> [c \in 1..t |-> Progress(c, t)]]

(* the cap of lines 86-87 left out *)
EffectiveTotalUncapped(max_records, total_rows) == total_rows

(* lines 85-89 *)
EffectiveTotal(max_records, total_rows) ==
    IF max_records > 0 /\ max_records < total_rows THEN max_records
                                                   ELSE total_rows

(* relevance_score >= self.threshold *)
IsRelevantStrict(relevance_score, threshold) == relevance_score > threshold
IsRelevant(relevance_score, threshold) == relevance_score >= threshold

(* the iteration recorded from a 0-based loop counter *)
ResultZeroBased(row, relevance_score, is_relevant, iter) ==
    [row |-> row, relevance_score |-> relevance_score,
     is_relevant |-> is_relevant, iteration |-> iter - 1]

(* the result row stored without its verdict *)
ResultWithoutVerdict(row, relevance_score, is_relevant, iter) ==
    [row |-> row, relevance_score |-> relevance_score,
     is_relevant |-> FALSE, iteration |-> iter]

Result(row, relevance_score, is_relevant, iter) ==
    [row |-> row, relevance_score |-> relevance_score,
     is_relevant |-> is_relevant, iteration |-> iter]

(* the check of line 63 left out: only a failed read stops the run *)
NoDataUnreadableOnly(readable, total_rows) == ~readable

(* lines 60-65: load_excel_data raised, or total_rows == 0 *)
NoData(readable, total_rows) == ~readable \/ total_rows = 0

(* lines 49-93: load the input, build the processor, size the run *)
Start ==
    /\ pc = "start"
    /\ LET total_rows == Len(params.data)
           started == Append(events, Signal("progress_percentage", 0, 0))
       IN  IF NoData(params.readable, total_rows)
           THEN /\ events' = Append(started, ErrorOccurred)
                /\ pc' = "done"
                /\ UNCHANGED <<data, iteration, total_tasks, ai_provider,
                               ai_model>>
           ELSE /\ events' = started
                /\ data' = params.data
                /\ ai_provider' = ResolveProvider(params.provider)
                /\ ai_model' = params.model
                /\ total_tasks' =
                     EffectiveTotal(params.max_records, total_rows)
                       * params.iterations
                /\ iteration' = 1
                /\ pc' = "iter_check"
    /\ UNCHANGED <<parseVars, renderVars, windowVars, params, i, completed_tasks,
                   progress, processed_data, relevant_count, terminate_flag,
                   callVars, output, uiVars>>

(* lines 96-101: the head of the outer loop *)
IterCheck ==
    /\ pc = "iter_check"
    /\ IF iteration > params.iterations
       THEN pc' = "finish" /\ UNCHANGED <<events, i>>
       ELSE IF terminate_flag
       THEN pc' = "finish" /\ events' = Append(events, Cancelled)
            /\ UNCHANGED i
       ELSE pc' = "rec_check" /\ i' = 0 /\ UNCHANGED events
    /\ UNCHANGED <<parseVars, renderVars, windowVars, params, data, iteration, completed_tasks, total_tasks,
                   progress, processed_data, relevant_count, terminate_flag,
                   ai_provider, ai_model, callVars, output, uiVars>>

InnerLoopEnds ==
    \/ i >= Len(params.data)
    \/ terminate_flag
    \/ (params.max_records > 0 /\ i >= params.max_records)

(* lines 103-111: the inner loop is exhausted, cancelled, or at the cap *)
InnerLoopExit ==
    /\ pc = "rec_check"
    /\ InnerLoopEnds
    /\ events' = IF i < Len(params.data) /\ terminate_flag
                 THEN Append(events, Cancelled) ELSE events
    /\ iteration' = iteration + 1
    /\ pc' = "iter_check"
    /\ UNCHANGED <<parseVars, renderVars, windowVars, params, data, i, completed_tasks, total_tasks,
                   progress, processed_data, relevant_count, terminate_flag,
                   ai_provider, ai_model, callVars, output, uiVars>>

(* ---- the dicts of the list: a name in run() refers to a dict, which is    *)
(* ---- an element of the loaded list or a new one                          *)
(* row, as enumerate(data) gives it: the list's own element *)
InputRow(k) == [alias |-> TRUE, obj |-> data[k]]

(* the row used without copying it *)
RowAlias(ref) == ref

(* row.copy(): a new dict with the same items *)
RowCopy(ref) == [alias |-> FALSE, obj |-> ref.obj]

(* lines 131-134, 207-214: the result items assigned into the dict *)
SetResult(ref, relevance_score, is_relevant, iter) ==
    [alias |-> ref.alias,
     obj |-> [title |-> ref.obj.title, abstract |-> ref.obj.abstract,
              relevance_score |-> relevance_score,
              is_relevant |-> is_relevant, iteration |-> iter]]

(* the loaded list after the assignment: it changes when the dict assigned  *)
(* into is the list's own element                                           *)
Store(ref, k) == IF ref.alias THEN [data EXCEPT ![k] = ref.obj] ELSE data

Title(row) == StrOf(row.title)
Abstract(row) == StrOf(row.abstract)
(* not title and not abstract *)
IsSkipped(row) == Title(row) = "" /\ Abstract(row) = ""

(* lines 113-136: count the task, then skip a record without title and      *)
(* abstract; its result is appended in the first iteration only             *)
SkipEmptyRecord ==
    /\ pc = "rec_check"
    /\ ~InnerLoopEnds
    /\ IsSkipped(params.data[i + 1])
    /\ completed_tasks' = completed_tasks + 1
    /\ progress' = ProgressTable[total_tasks][completed_tasks']
    /\ events' = Append(events, Signal("progress_percentage", progress', 0))
    /\ processed_data' =
         IF iteration = 1
         THEN Append(processed_data, Result(i + 1, 0, FALSE, iteration))
         ELSE processed_data
    /\ data' =
         IF iteration = 1
         THEN Store(SetResult(RowCopy(InputRow(i + 1)), 0, FALSE, iteration),
                    i + 1)
         ELSE data
    /\ i' = i + 1
    /\ UNCHANGED <<parseVars, renderVars, windowVars, params, pc, iteration, total_tasks,
                   relevant_count, terminate_flag, ai_provider, ai_model,
                   callVars, output, uiVars>>

(* lines 113-189: count the task, then hand the record to the processor *)
BeginRecord ==
    /\ pc = "rec_check"
    /\ ~InnerLoopEnds
    /\ ~IsSkipped(params.data[i + 1])
    /\ completed_tasks' = completed_tasks + 1
    /\ progress' = ProgressTable[total_tasks][completed_tasks']
    /\ events' = Append(events, Signal("progress_percentage", progress', 0))
    /\ LET step == EnterCall(Handler(ai_provider, ai_model, params.use_prompt),
                             params.client, ai_model)
       IN  /\ call_pc' = step.to
           /\ call_result' = step.value
    /\ last_outcome' = "none"
    /\ waited' = 0
    /\ delay' = 0
    /\ substituted' = "no"
    /\ pc' = "scoring"
    /\ UNCHANGED <<parseVars, renderVars, windowVars, params, data, iteration, i, total_tasks,
                   processed_data, relevant_count, terminate_flag,
                   ai_provider, ai_model, output, uiVars>>

(***************************************************************************)
(*                 one scoring call of the AIProcessor                      *)
(***************************************************************************)
CurrentHandler == Handler(ai_provider, ai_model, params.use_prompt)

(* whether the reaction to a request replaces the model: self.model is      *)
(* assigned another id, or the request is repeated with model="gpt-4o"      *)
Substitutes(step) == step.to = "model_fallback" \/ step.model # ai_model

(* the request just answered was the first one sent after a substitution,   *)
(* or its answer brings one                                                 *)
AfterSubstitution(step) ==
    IF substituted = "pending" THEN "tried"
    ELSE IF substituted = "no" /\ Substitutes(step) THEN "pending"
    ELSE substituted

TakeStep(step) ==
    /\ call_pc' = step.to
    /\ call_result' = step.value
    /\ delay' = step.d
    /\ ai_model' = step.model

callFrame ==
    <<parseVars, renderVars, windowVars, params, data, pc, loopVars, processed_data, relevant_count,
      terminate_flag, events, ai_provider, output, uiVars>>

(* the head of "while True" without a client: no request, a short sleep *)
WaitForClient ==
    /\ pc = "scoring" /\ call_pc = "attempt"
    /\ CurrentHandler \in { "openai", "openai_reasoning" }
    /\ ~params.client
    /\ TakeStep(SleepThen(ShortDelay, ai_model))
    /\ UNCHANGED <<last_outcome, waited, substituted>>
    /\ UNCHANGED callFrame

(* the scoring method sends its request and reacts to what comes back *)
Attempt ==
    /\ pc = "scoring" /\ call_pc = "attempt"
    /\ ~(CurrentHandler \in { "openai", "openai_reasoning" } /\ ~params.client)
    /\ \E outcome \in OutcomesOf(CurrentHandler) \cap params.outcomes,
          text \in params.replies :
         /\ TakeStep(AfterRequest(CurrentHandler, params.client, outcome, text,
                                  ai_provider, ai_model, params.use_prompt))
         /\ substituted' =
              AfterSubstitution(AfterRequest(CurrentHandler, params.client,
                                             outcome, text, ai_provider,
                                             ai_model, params.use_prompt))
         /\ last_outcome' = outcome
    /\ waited' = 0
    /\ UNCHANGED callFrame

(* anthropic: the REST request that follows a failed SDK request *)
RestFallback ==
    /\ pc = "scoring" /\ call_pc = "rest_fallback"
    /\ \E outcome \in OutcomesOf(CurrentHandler) \cap params.outcomes,
          text \in params.replies :
         /\ TakeStep(AnthropicREST(outcome, text, ai_provider, ai_model))
         /\ substituted' =
              AfterSubstitution(AnthropicREST(outcome, text, ai_provider,
                                              ai_model))
         /\ last_outcome' = outcome
    /\ waited' = 0
    /\ UNCHANGED callFrame

(* openai reasoning: the one request to the substitute model *)
ModelFallback ==
    /\ pc = "scoring" /\ call_pc = "model_fallback"
    /\ \E outcome \in OutcomesOf("openai") \cap params.outcomes,
          text \in params.replies :
         /\ TakeStep(OpenAIFallback(outcome, text, ai_provider, params.model))
         /\ substituted' =
              AfterSubstitution(OpenAIFallback(outcome, text, ai_provider,
                                               params.model))
         /\ last_outcome' = outcome
    /\ waited' = 0
    /\ UNCHANGED callFrame

(* time.sleep(delay) returns *)
Sleep ==
    /\ pc = "scoring" /\ call_pc = "sleeping"
    /\ waited' = delay
    /\ delay' = 0
    /\ call_pc' = "attempt"
    /\ UNCHANGED <<last_outcome, call_result, ai_model, substituted>>
    /\ UNCHANGED callFrame

(* lines 191-233: compare with the threshold and append the result; a score *)
(* that is a str raises TypeError at line 204, caught at line 262           *)
Commit ==
    /\ pc = "scoring" /\ call_pc = "returned"
    /\ call_pc' = "idle"
    /\ IF call_result.t = "str"
       THEN /\ events' = Append(events, ErrorOccurred)
            /\ pc' = "done"
            /\ UNCHANGED <<data, i, processed_data, relevant_count>>
       ELSE LET relevance_score == call_result.v
                is_relevant == IsRelevant(relevance_score, params.threshold)
            IN  /\ processed_data' =
                     Append(processed_data,
                            Result(i + 1, relevance_score, is_relevant,
                                   iteration))
                /\ data' =
                     Store(SetResult(RowCopy(RowCopy(InputRow(i + 1))),
                                     relevance_score, is_relevant, iteration),
                           i + 1)
                /\ relevant_count' =
                     IF is_relevant THEN relevant_count + 1
                                    ELSE relevant_count
                /\ events' =
                     Append(events,
                            FileProcessed(i + 1, relevance_score, iteration))
                /\ i' = i + 1
                /\ pc' = "rec_check"
    /\ UNCHANGED <<parseVars, renderVars, windowVars, params, iteration, completed_tasks,
                   total_tasks, progress, terminate_flag, ai_provider,
                   ai_model, last_outcome, waited, delay, call_result,
                   substituted, output, uiVars>>

(***************************************************************************)
(*                       the end of the run                                 *)
(***************************************************************************)
(* line 236 *)
Finish ==
    /\ pc = "finish"
    /\ pc' = IF terminate_flag THEN "done" ELSE "saving"
    /\ UNCHANGED <<parseVars, renderVars, windowVars, params, data, loopVars, processed_data, relevant_count,
                   terminate_flag, events, ai_provider, ai_model, callVars,
                   output, uiVars>>

(* the summary counting every loaded record, whatever the cap *)
ProcessedRecordsUncapped == Len(params.data)

(* "Processed Records": len(data[:max_records if max_records > 0 else len]) *)
ProcessedRecords ==
    IF params.max_records > 0
    THEN Min(params.max_records, Len(params.data))
    ELSE Len(params.data)

(* the failure of save_excel_data reported without leaving run() *)
SaveFailureReportedOnly ==
    /\ pc = "saving"
    /\ \E ok \in BOOLEAN :
         IF ok
         THEN /\ output' = [written |-> TRUE, rows |-> processed_data,
                            processed |-> ProcessedRecords,
                            relevant |-> relevant_count,
                            model |-> params.model]
              /\ UNCHANGED events
         ELSE /\ events' = Append(events, ErrorOccurred)
              /\ UNCHANGED output
    /\ pc' = "completing"
    /\ UNCHANGED <<parseVars, renderVars, windowVars, params, data, loopVars,
                   processed_data, relevant_count, terminate_flag,
                   ai_provider, ai_model, callVars, uiVars>>

(* lines 237-254: save_excel_data writes, or raises and run() reports it *)
Save ==
    /\ pc = "saving"
    /\ \E ok \in BOOLEAN :
         IF ok
         THEN /\ output' = [written |-> TRUE, rows |-> processed_data,
                            processed |-> ProcessedRecords,
                            relevant |-> relevant_count,
                            model |-> params.model]
              /\ pc' = "completing"
              /\ UNCHANGED events
         ELSE /\ events' = Append(events, ErrorOccurred)
              /\ pc' = "done"
              /\ UNCHANGED output
    /\ UNCHANGED <<parseVars, renderVars, windowVars, params, data, loopVars, processed_data, relevant_count,
                   terminate_flag, ai_provider, ai_model, callVars,
                   uiVars>>

(* lines 256-260 *)
Complete ==
    /\ pc = "completing"
    /\ events' =
         events \o
           << Signal("progress_percentage", Hundred, 0),
              Signal("processing_complete",
                     Len(processed_data) \div params.iterations,
                     relevant_count) >>
    /\ pc' = "done"
    /\ UNCHANGED <<parseVars, renderVars, windowVars, params, data, loopVars, processed_data, relevant_count,
                   terminate_flag, ai_provider, ai_model, callVars, output,
                   uiVars>>

(***************************************************************************)
(*                 the main window stops the thread                         *)
(***************************************************************************)
Running == pc \notin { "done", "killed" }

(* stop_filtering -> ProcessingThread.terminate: set the flag, announce,    *)
(* and ask Qt to terminate the thread                                       *)
StopFiltering ==
    /\ Running
    /\ ~stop_requested
    /\ terminate_flag' = TRUE
    /\ events' = Append(events, Signal("terminating", 0, 0))
    /\ stop_requested' = TRUE
    /\ stopped_at' = completed_tasks
    /\ UNCHANGED <<parseVars, renderVars, windowVars, params, data, pc, loopVars, processed_data,
                   relevant_count, ai_provider, ai_model, callVars, output>>

(* QThread.terminate takes effect: the thread is gone wherever it stood;    *)
(* until then it keeps running                                              *)
Kill ==
    /\ stop_requested
    /\ Running
    /\ pc' = "killed"
    /\ UNCHANGED <<parseVars, renderVars, windowVars, params, data, loopVars, processed_data, relevant_count,
                   terminate_flag, events, ai_provider, ai_model, callVars,
                   output, uiVars>>

(***************************************************************************)
(*                          Specifications                                  *)
(***************************************************************************)
Thresholds == MinThreshold..MaxThreshold

(* the thresholds that tell the runs on datasets apart: the ends of the     *)
(* range, and the score their provider's reply parses to with its two       *)
(* neighbours                                                               *)
DatasetThresholds ==
    { t \in Thresholds :
        \/ t \in { MinThreshold, MaxThreshold }
        \/ t - _parse_result(<<"6">>, "mistral", "mistral-large") \in -1..1 }

(* every provider variant, with and without a prompt template, answering   *)
(* in every way, on one record that carries text                            *)
InitProviders ==
    \E variant \in Variants, use_prompt \in BOOLEAN,
       iterations \in 1..MaxIterations :
        params = Params(variant, use_prompt, DefaultScore, 0, iterations, TRUE,
                        <<TextRow>>, Outcomes, ResponseTexts)

(* every dataset, record cap and iteration count, with the thresholds       *)
(* around the score, and a provider that answers every request              *)
InitDatasets ==
    \E threshold \in DatasetThresholds, max_records \in 0..MaxRows,
       iterations \in 1..MaxIterations, file_rows \in Datasets(MaxRows) :
        params = Params([provider |-> "mistral", model |-> "mistral-large",
                         client |-> TRUE],
                        TRUE, threshold, max_records, iterations, TRUE,
                        file_rows,
                        WellBehaved, {<<"6">>})

(* an input file that cannot be read *)
InitUnreadable ==
    params = Params([provider |-> "mistral", model |-> "mistral-large",
                     client |-> TRUE], TRUE, DefaultScore, 0, 1, FALSE, <<>>,
                    WellBehaved, {<<"6">>})

Init ==
    /\ ParseIdle
    /\ RenderIdle
    /\ InitProviders \/ InitDatasets \/ InitUnreadable
    /\ RunIdle
    /\ WindowIdle

Next ==
    \/ Start
    \/ IterCheck
    \/ InnerLoopExit
    \/ SkipEmptyRecord
    \/ BeginRecord
    \/ WaitForClient
    \/ Attempt
    \/ RestFallback
    \/ ModelFallback
    \/ Sleep
    \/ Commit
    \/ Finish
    \/ Save
    \/ Complete
    \/ StopFiltering
    \/ Kill

Spec == Init /\ [][Next]_vars

(* ---- long runs, for the progress arithmetic: records that are all skipped *)
(* ---- or all answered at once (a provider the dispatch does not know)      *)
InitProgress ==
    /\ ParseIdle
    /\ RenderIdle
    /\ \E n \in 1..MaxProgressRows, iterations \in 1..MaxProgressIterations,
          row \in {TextRow, AbsentRow} :
        \E max_records \in {0, n - 1} :
         params = Params([provider |-> "custom", model |-> "custom-model",
                          client |-> TRUE],
                         TRUE, DefaultScore, max_records, iterations, TRUE,
                         [k \in 1..n |-> row], WellBehaved, {<<"6">>})
    /\ RunIdle
    /\ WindowIdle

NextProgress ==
    \/ Start
    \/ IterCheck
    \/ InnerLoopExit
    \/ SkipEmptyRecord
    \/ BeginRecord
    \/ Commit
    \/ Finish
    \/ Save
    \/ Complete

SpecProgress == InitProgress /\ [][NextProgress]_vars

(* ---- runs nobody stops, with a provider that answers every request with  *)
(* ---- a well-formed reply; the thread keeps running while it has a step    *)
InitLive ==
    /\ ParseIdle
    /\ RenderIdle
    /\ \E variant \in Variants, use_prompt \in BOOLEAN,
          iterations \in 1..MaxIterations, n \in 1..MaxRows,
          row \in {TextRow, AbsentRow} :
        \E max_records \in {0, n - 1} :
         params = Params(variant, use_prompt, DefaultScore, max_records,
                         iterations, TRUE, [k \in 1..n |-> row], WellBehaved,
                         ResponseTexts)
    /\ RunIdle
    /\ WindowIdle

NextLive ==
    \/ Start
    \/ IterCheck
    \/ InnerLoopExit
    \/ SkipEmptyRecord
    \/ BeginRecord
    \/ WaitForClient
    \/ Attempt
    \/ Sleep
    \/ Commit
    \/ Finish
    \/ Save
    \/ Complete

(* the two steps of NextLive that depend on the arithmetic of the progress  *)
(* and on the parser, by what they do to the thread's position: a record    *)
(* is taken (SkipEmptyRecord, BeginRecord), a request is answered (Attempt, *)
(* RestFallback, ModelFallback)                                             *)
TakeRecord ==
    /\ pc = "rec_check"
    /\ ~InnerLoopEnds
    /\ completed_tasks' = completed_tasks + 1

RequestAnswered ==
    /\ pc = "scoring"
    /\ call_pc \in { "attempt", "rest_fallback", "model_fallback" }
    /\ ~(/\ call_pc = "attempt"
         /\ CurrentHandler \in { "openai", "openai_reasoning" }
         /\ ~params.client)
    /\ call_pc' \in { "returned", "sleeping", "rest_fallback",
                      "model_fallback" }

(* the thread is scheduled: whatever step run() stands at is eventually     *)
(* taken; time.sleep returns, the HTTP request returns (self.timeout)       *)
Fairness ==
    /\ WF_vars(Start \/ IterCheck \/ InnerLoopExit \/ WaitForClient \/ Sleep
                 \/ Commit \/ Finish \/ Save \/ Complete)
    /\ WF_completed_tasks(TakeRecord)
    /\ WF_call_pc(RequestAnswered)

SpecLive == InitLive /\ [][NextLive]_vars /\ Fairness

(* ---- runs the user may stop, the thread being left to itself afterwards  *)
(* ---- (the flag alone), with a provider that answers every request with   *)
(* ---- a transient error or a rate-limit signal                            *)
TransientErrors == { "server_error", "transport", "rate_limit" }

InitCancel ==
    /\ ParseIdle
    /\ RenderIdle
    /\ \E variant \in Variants, use_prompt \in BOOLEAN, n \in 1..MaxRows,
          row \in {TextRow, AbsentRow} :
         params = Params(variant, use_prompt, DefaultScore, 0, 1, TRUE,
                         [k \in 1..n |-> row], TransientErrors,
                         ResponseTexts)
    /\ RunIdle
    /\ WindowIdle

NextCancel ==
    \/ NextLive
    \/ RestFallback
    \/ StopFiltering

SpecCancel == InitCancel /\ [][NextCancel]_vars /\ Fairness

(***************************************************************************)
(*                              Claims                                      *)
(***************************************************************************)

(* C1: for every input text (empty, whitespace-only, non-numeric, JSON that *)
(* is not an object, special numeric spellings) _parse_result returns an    *)
(* integer in 1..7 and never raises; for the empty string it returns 4.     *)
C1_ParseResultInRange ==
    p_pc = "parsed" =>
        /\ p_result.exc = "none"
        /\ p_result.v \in MinScore..MaxScore
        /\ (p_text = <<>> => p_result.v = DefaultScore)

(* a special numeric spelling, whose conversion overflows, has been parsed *)
C1_Witness ==
    /\ p_pc = "parsed"
    /\ p_text = <<"-", "inf">>
    /\ p_result = Returned(DefaultScore)

(* C2: every result of a record that was sent to a provider has a score     *)
(* that is an integer in 1..7, whatever the provider, model and outcome;    *)
(* the only other score is 0, and only for a record skipped for its empty   *)
(* title and abstract.                                                      *)
C2_ScoresInRange ==
    \A k \in 1..Len(processed_data) :
        \/ processed_data[k].relevance_score \in MinScore..MaxScore
        \/ /\ processed_data[k].relevance_score = 0
           /\ IsSkipped(params.data[processed_data[k].row])

(* C3: for every result and every threshold in 1..7, is_relevant equals     *)
(* (relevance_score >= threshold); the score-0 results of empty records are *)
(* not relevant.                                                            *)
C3_RelevantIffAtLeastThreshold ==
    \A k \in 1..Len(processed_data) :
        /\ processed_data[k].is_relevant
             = (processed_data[k].relevance_score >= params.threshold)
        /\ (processed_data[k].relevance_score = 0
              => ~processed_data[k].is_relevant)

(* a result whose score equals the threshold, so it is relevant *)
C3_Witness ==
    \E k \in 1..Len(processed_data) :
        /\ processed_data[k].relevance_score = params.threshold
        /\ processed_data[k].is_relevant

(* C4: a record whose title and abstract are both empty is never sent to a  *)
(* provider in any iteration; it contributes exactly one result (score 0,   *)
(* not relevant, iteration 1) in iteration 1 and none in later iterations.  *)
C4_EmptyRecordNeverSent ==
    \A r \in 1..Len(params.data) :
        (/\ params.data[r].title \in { Missing, NaN }
         /\ params.data[r].abstract \in { Missing, NaN })
        => /\ ~(pc = "scoring" /\ i + 1 = r)
           /\ \A k \in 1..Len(processed_data) :
                processed_data[k].row = r =>
                    /\ processed_data[k].relevance_score = 0
                    /\ ~processed_data[k].is_relevant
                    /\ processed_data[k].iteration = 1
           /\ Cardinality({ k \in 1..Len(processed_data) :
                              processed_data[k].row = r }) <= 1
           /\ (/\ ~terminate_flag
               /\ r <= EffectiveTotal(params.max_records, Len(params.data))
               /\ (iteration > 1 \/ (pc = "rec_check" /\ i + 1 > r))
               => \E k \in 1..Len(processed_data) : processed_data[k].row = r)

(* C5: total_tasks = effectiveCount * N; completed_tasks grows by exactly 1 *)
(* per record visited and by nothing else; each emitted progress value is   *)
(* floor(completed_tasks * 100 / total_tasks); the emitted values never     *)
(* decrease.                                                                *)
C5_ProgressIsFloor ==
    pc \in { "rec_check", "scoring" } =>
        LET effective ==
                EffectiveTotal(params.max_records, Len(params.data))
        IN  /\ total_tasks = effective * params.iterations
            /\ completed_tasks
                 = (iteration - 1) * effective
                     + (IF pc = "scoring" THEN i + 1 ELSE i)
            /\ (completed_tasks > 0 =>
                  progress = ProgressExact(completed_tasks, total_tasks))
            /\ \A j \in 1..Len(events), k \in 1..Len(events) :
                 (/\ j < k
                  /\ events[j].sig = "progress_percentage"
                  /\ events[k].sig = "progress_percentage")
                 => events[j].a <= events[k].a

(* C6: progress 100 is emitted only at successful, non-cancelled            *)
(* completion: once it has been emitted, every result has been appended,    *)
(* the run is not cancelled, the output has been written, and no cancelled  *)
(* or error event follows it.                                               *)
C6_HundredOnlyAtCompletion ==
    \A j \in 1..Len(events) :
        (events[j].sig = "progress_percentage" /\ events[j].a = Hundred)
        => /\ output.written
           /\ output.rows = processed_data
           /\ pc \in { "completing", "done" }
           /\ \A k \in 1..Len(events) :
                k > j => events[k].sig \notin { "cancelled", "error_occurred" }

(* C7: if the cancellation flag is set when exactly k tasks are completed   *)
(* and tasks remain, the run ends with at most k results, its last event is *)
(* the cancelled message, and no error or completion event is emitted.      *)
C7_CancelledRunEndsCancelled ==
    (/\ ~Running
     /\ stopped_at >= 0
     /\ stopped_at < total_tasks)
    => /\ Len(processed_data) <= stopped_at
       /\ events # <<>>
       /\ events[Len(events)] = Cancelled
       /\ \A k \in 1..Len(events) :
            events[k].sig \notin { "error_occurred", "processing_complete" }

(* C8: when a run is cancelled the worker processes no further record, and  *)
(* the results collected before the cancellation are kept and flushed to    *)
(* the result sink (stated for the run that has ended).                     *)
C8_CancelledResultsFlushed ==
    (\E k \in 1..Len(events) : events[k] = Cancelled)
    => /\ pc # "scoring"
       /\ (pc = "done" => output.written /\ output.rows = processed_data)

(* C9: for every provider variant, after a transport or server error the    *)
(* call waits the short delay (2s) before it sends the request again, and   *)
(* such an error never ends the call with a score.                          *)
C9_TransientErrorRetried ==
    (pc = "scoring" /\ last_outcome \in { "transport", "server_error" })
    => /\ call_pc # "returned"
       /\ (call_pc \in { "attempt", "rest_fallback", "model_fallback" }
             => waited = ShortDelay)

(* C10: for every provider variant, after a rate-limit signal no request is *)
(* sent again before the long delay (20s) has elapsed, and the call never   *)
(* returns a score because of a rate limit.                                 *)
C10_RateLimitWaited ==
    (pc = "scoring" /\ last_outcome = "rate_limit")
    => /\ call_pc # "returned"
       /\ (call_pc \in { "attempt", "rest_fallback", "model_fallback" }
             => waited = LongDelay)

(* C11: for every provider variant, a model-not-found / model-unsupported   *)
(* error makes the call put the provider's fallback model in place and send *)
(* the request once more with it; if that request fails too, the call       *)
(* returns the default score 4 and does not retry further.                  *)
C11_ModelFallbackOnce ==
    pc = "scoring" =>
        /\ (last_outcome = "model_not_found" /\ substituted # "tried")
             => /\ substituted = "pending"
                /\ call_pc \in { "attempt", "model_fallback" }
        /\ (substituted = "tried" /\ last_outcome # "ok")
             => /\ call_pc = "returned"
                /\ call_result = IntValue(DefaultScore)

(* C12: for every provider variant, an authentication failure is not        *)
(* retried: the call returns the default score 4 after that one attempt,    *)
(* so the batch goes on with the next record.                               *)
C12_AuthNotRetried ==
    (pc = "scoring" /\ last_outcome \in { "auth", "auth_400" })
    => /\ call_pc = "returned"
       /\ call_result = IntValue(DefaultScore)

(* C13: an unexpected exception raised while one record is processed never  *)
(* aborts the batch: a result is still appended for that record and the run *)
(* goes on, so a run that ends by itself, uncancelled, on a readable        *)
(* dataset has visited every task and holds a result for every record that  *)
(* was not skipped, in every iteration.                                     *)
C13_RecordErrorDoesNotAbort ==
    (/\ pc = "done" /\ ~terminate_flag
     /\ params.readable /\ Len(params.data) > 0)
    => /\ completed_tasks = total_tasks
       /\ \A it \in 1..params.iterations,
             r \in 1..EffectiveTotal(params.max_records, Len(params.data)) :
            ~IsSkipped(params.data[r])
            => \E k \in 1..Len(processed_data) :
                 /\ processed_data[k].row = r
                 /\ processed_data[k].iteration = it

(* ---- what "a numeric string n" and "round to nearest" mean in C14 ------- *)
NumericBody(text) ==
    IF Strip(text) # <<>> /\ Head(Strip(text)) = "-" THEN Tail(Strip(text))
                                                     ELSE Strip(text)

IsNumericString(text) ==
    /\ \A k \in 1..Len(NumericBody(text)) :
         IsDigit(NumericBody(text)[k]) \/ NumericBody(text)[k] = "."
    /\ Cardinality({ k \in 1..Len(NumericBody(text)) :
                       NumericBody(text)[k] = "." }) <= 1
    /\ \E k \in 1..Len(NumericBody(text)) : IsDigit(NumericBody(text)[k])

(* the integers nearest to the magnitude ip.fp (both of them at a tie) *)
NearestMagnitudes(ip, fp) ==
    IF Overflows(ip) THEN { MaxScore + 1 }
    ELSE IF fp = <<>> \/ Overflows(<<fp[1]>>) \/ DigitVal(fp[1]) < 5
      THEN IF fp # <<>> /\ Overflows(<<fp[1]>>) THEN { DigitsValue(ip) + 1 }
           ELSE { DigitsValue(ip) }
    ELSE IF DigitVal(fp[1]) = 5
            /\ \A k \in 2..Len(fp) : fp[k] = "0"
      THEN { DigitsValue(ip), DigitsValue(ip) + 1 }
    ELSE { DigitsValue(ip) + 1 }

NearestIntegers(text) ==
    LET body == NumericBody(text)
        dots == { k \in 1..Len(body) : body[k] = "." }
        dot  == IF dots = {} THEN Len(body) + 1 ELSE CHOOSE k \in dots : TRUE
        mags == NearestMagnitudes(SubSeq(body, 1, dot - 1),
                                  SubSeq(body, dot + 1, Len(body)))
    IN  IF body # Strip(text) THEN { 0 - m : m \in mags } ELSE mags

(* C14: for every text that is, after trimming, a numeric string n (integer *)
(* or decimal, positive or negative) the parser returns                     *)
(* clamp(round-to-nearest(n), 1, 7): "9" gives 7, "-3" gives 1 and "4.6"    *)
(* gives 5.                                                                 *)
C14_NumberRoundedAndClamped ==
    (p_pc = "parsed" /\ IsNumericString(p_text))
    => /\ p_result.exc = "none"
       /\ p_result.v \in { Clamp(n) : n \in NearestIntegers(p_text) }

(* the value of the first digit run of the text, capped above 7 when the    *)
(* run is too long to be written out                                        *)
FirstRunValue(text) ==
    IF Overflows(FirstDigitRun(text)) THEN MaxScore + 1
    ELSE DigitsValue(FirstDigitRun(text))

(* C15: for every text that is not itself a number but contains a run of    *)
(* digits, the parser returns clamp(value of the first digit run, 1, 7),    *)
(* whatever later digit runs, JSON structure or relevance phrases it has:   *)
(* "Score: 6 out of 7" gives 6.                                             *)
C15_FirstDigitRunWins ==
    (/\ p_pc = "parsed"
     /\ FloatOf(p_text).kind = "invalid"
     /\ \E k \in 1..Len(p_text) : IsDigit(p_text[k]))
    => /\ p_result.exc = "none"
       /\ p_result.v = Clamp(FirstRunValue(p_text))

(* the text the strategies work on, and the scores of the phrases in it *)
Remainder(text, proc) == Strip(StripMarkers(text, proc[1], proc[2]))

PhraseScores(text) ==
    { score_keywords[k] :
        k \in { q \in DOMAIN score_keywords :
                  \E j \in 1..Len(text) : KeywordInToken(q, Lower(text[j])) } }

PhraseOrDefault(text) ==
    IF PhraseScores(text) = {} THEN DefaultScore
    ELSE CHOOSE s \in PhraseScores(text) : \A q \in PhraseScores(text) : q <= s

(* the decoded text is an object whose "score" member is a number *)
HasNumericScore(js) ==
    js.ok /\ js.t = "obj" /\ js.st \in { "num", "bool", "strnum", "inf", "nan" }

(* C17: the strategies are applied in the fixed order marker strip, whole   *)
(* string as a number, first digit run, object with a numeric "score",      *)
(* keyword vocabulary, default 4, and a strategy that does not succeed      *)
(* hands the text to the next one; in particular a digit-free text that     *)
(* decodes as a structured value without a numeric "score" is resolved by   *)
(* the keyword vocabulary, and is 4 only when no phrase matches.            *)
C17_StrategiesInOrder ==
    (p_pc = "parsed" /\ Strip(p_text) # <<>>)
    => LET rest   == Remainder(p_text, p_proc)
           number == IntOfFloat(rest)
           run    == FirstDigitRun(rest)
       IN  /\ p_result.exc = "none"
           /\ number.exc = "none" => p_result.v = Clamp(number.v)
           /\ (number.exc = "ValueError" /\ run # <<>> /\ ~Overflows(run))
                => p_result.v = Clamp(DigitsValue(run))
           /\ (/\ number.exc = "ValueError" /\ run = <<>>
               /\ ~HasNumericScore(JsonLoads(rest)))
                => p_result.v = PhraseOrDefault(rest)

(* C18: the parser is a deterministic function of its text alone: for every *)
(* text, processors that differ only in provider id or model id return the  *)
(* same score, and a parse call changes no processor state.                 *)
C18_ParseIndependentOfProcessor ==
    p_pc = "parsed" =>
        \A q \in ParseProcessors :
            ParseOutcome(p_text, q[1], q[2]) = p_result

(* (iteration, index) pairs in lexicographic order, a transitive order: a   *)
(* sequence is ordered when each element comes before the next one          *)
Before(it1, r1, it2, r2) == it1 < it2 \/ (it1 = it2 /\ r1 < r2)

IsFileProcessed(e) == e.sig = "file_processed"
FileProcessedEvents == SelectSeq(events, IsFileProcessed)

(* C19: per-record events and accumulated results come in the order the     *)
(* records are processed, iteration-major then record-index-minor: of two   *)
(* results (or two file_processed events) the earlier one has the smaller   *)
(* (iteration, index) pair, and iteration numbers start at 1.               *)
C19_ResultsInProcessingOrder ==
    /\ \A k \in 1..Len(processed_data) : processed_data[k].iteration >= 1
    /\ \A k \in 1..(Len(processed_data) - 1) :
         Before(processed_data[k].iteration, processed_data[k].row,
                processed_data[k + 1].iteration, processed_data[k + 1].row)
    /\ \A k \in 1..Len(events) :
         events[k].sig = "file_processed" => events[k].b >= 1
    /\ \A k \in 1..(Len(FileProcessedEvents) - 1) :
         Before(FileProcessedEvents[k].b, FileProcessedEvents[k].row,
                FileProcessedEvents[k + 1].b, FileProcessedEvents[k + 1].row)

(* two records scored in two iterations: four results, four events *)
C19_Witness ==
    /\ Len(processed_data) = 4
    /\ processed_data[4].iteration = 2 /\ processed_data[4].row = 2
    /\ Cardinality({ k \in 1..Len(events) :
                       events[k].sig = "file_processed" }) = 4

(* C20: if the input dataset cannot be read or holds zero records, the run  *)
(* ends with a terminal error event, sends no request to any provider,      *)
(* writes no output and emits no completion event.                          *)
C20_NoDataIsFatal ==
    (~params.readable \/ Len(params.data) = 0)
    => /\ pc \in { "start", "done", "killed" }
       /\ call_pc = "idle" /\ last_outcome = "none"
       /\ processed_data = <<>>
       /\ ~output.written
       /\ \A k \in 1..Len(events) : events[k].sig # "processing_complete"
       /\ (pc = "done" => /\ events # <<>>
                          /\ events[Len(events)] = ErrorOccurred)

(* a readable file without rows: the run has ended on the error event *)
C20_Witness ==
    /\ params.readable /\ Len(params.data) = 0
    /\ pc = "done"
    /\ events # <<>> /\ events[Len(events)] = ErrorOccurred

(***************************************************************************)
(*                   Claims about the end of the run                        *)
(***************************************************************************)
(* processed_data is a local of run() and ProcessingThread keeps no         *)
(* attribute for it: once run() has returned, the results the caller can    *)
(* still reach are the rows save_excel_data has written                     *)
RetainedResults == IF Running THEN processed_data ELSE output.rows

(* run() has left through the handler of line 262 after the loops ended:    *)
(* save_excel_data raised                                                   *)
SaveFailed ==
    /\ pc = "done"
    /\ iteration > params.iterations
    /\ events # <<>> /\ events[Len(events)] = ErrorOccurred

(* C21: when handing the results to the sink fails, the run ends with a     *)
(* terminal error event and no completion event, and the collected results  *)
(* remain available to the caller afterwards.                               *)
C21_ResultsSurviveFailedSave ==
    SaveFailed
    => /\ \A k \in 1..Len(events) : events[k].sig # "processing_complete"
       /\ ~output.written
       /\ RetainedResults = processed_data

(* the part of C21 about the events alone *)
C21_FailedSaveEndsInError ==
    SaveFailed
    => /\ \A k \in 1..Len(events) : events[k].sig # "processing_complete"
       /\ ~output.written

(* C22: the provider configuration of a run is immutable: every request of  *)
(* the run carries the model id the run was started with, which is the      *)
(* model recorded in the run summary.                                       *)
C22_ModelFixedForTheRun ==
    /\ iteration >= 1 => ai_model = params.model
    /\ call_pc # "model_fallback"
    /\ output.written => output.model = ai_model

(* C23: cancellation is cooperative: after the stop request a request in    *)
(* flight is allowed to finish and the worker stops only by leaving run()   *)
(* at a loop-boundary check of the flag, never in the middle of a network   *)
(* call or of a record's processing.                                        *)
C23_CancellationIsCooperative ==
    (stop_requested /\ ~Running) => (pc = "done" /\ call_pc = "idle")

(* effectiveCount as the claim defines it *)
EffectiveCount ==
    IF params.max_records <= 0 THEN Len(params.data)
    ELSE Min(Len(params.data), params.max_records)

(* C24: each iteration visits exactly the records with index                *)
(* 0..effectiveCount-1 in order; no record with index >= effectiveCount is  *)
(* ever sent to a provider, counted in completed_tasks or added to the      *)
(* results.                                                                 *)
C24_OnlyEffectiveRecordsVisited ==
    iteration >= 1 =>
      /\ total_tasks = EffectiveCount * params.iterations
      /\ i <= EffectiveCount
      /\ pc = "scoring" => i < EffectiveCount
      /\ completed_tasks <= total_tasks
      /\ \A k \in 1..Len(processed_data) :
           processed_data[k].row \in 1..EffectiveCount
      /\ \A k \in 1..Len(events) :
           events[k].sig = "file_processed" => events[k].row \in 1..EffectiveCount
      /\ (~terminate_flag /\ pc = "rec_check")
           => completed_tasks = EffectiveCount * (iteration - 1) + i
      /\ (~terminate_flag /\ pc = "scoring")
           => completed_tasks = EffectiveCount * (iteration - 1) + i + 1
      /\ (~terminate_flag /\ pc \in { "iter_check", "finish", "saving",
                                      "completing" })
           => completed_tasks = EffectiveCount * (iteration - 1)

(* two records, a cap of one, two iterations: the run completed after two   *)
(* visits, both of the first record                                         *)
C24_Witness ==
    /\ Len(params.data) = 2 /\ params.max_records = 1 /\ params.iterations = 2
    /\ pc = "done" /\ completed_tasks = 2
    /\ Len(processed_data) = 2 /\ processed_data[2].row = 1
    /\ events[Len(events)].sig = "processing_complete"

(* the visited records that carry a title or an abstract, and those that    *)
(* carry neither                                                            *)
NonEmptyVisited ==
    Cardinality({ k \in 1..EffectiveCount : ~IsSkipped(params.data[k]) })
EmptyVisited ==
    Cardinality({ k \in 1..EffectiveCount : IsSkipped(params.data[k]) })

ValueOf(placeholder) ==
    CASE placeholder = "{TITLE}"      -> CellStr(fields.title)
      [] placeholder = "{ABSTRACT}"   -> CellStr(fields.abstract)
      [] placeholder = "{KEYWORDS}"   -> CellStr(fields.keywords)
      [] placeholder = "{TOPIC}"      -> topic
      [] placeholder = "{CATEGORIES}" -> CellStr(fields.categories)

(* simultaneous substitution: each placeholder of the template gives way to *)
(* its value, and the values are not read again                             *)
RECURSIVE Simultaneous(_)
Simultaneous(template) ==
    IF template = <<>> THEN <<>>
    ELSE (IF Head(template) \in Placeholders THEN ValueOf(Head(template))
                                             ELSE <<Head(template)>>)
           \o Simultaneous(Tail(template))

(* C26: the rendered prompt equals the simultaneous substitution of the     *)
(* five field values into the template, so a value that itself contains     *)
(* placeholder text appears in the prompt unchanged.                        *)
C26_PromptIsSimultaneousSubstitution ==
    r_pc = "rendered" => custom_prompt = Simultaneous(prompt_template)

(* the part of C26 that holds: with values that spell no placeholder the    *)
(* prompt is the simultaneous substitution                                  *)
C26_PlainValuesSubstituted ==
    (/\ r_pc = "rendered"
     /\ \A p \in Placeholders :
          \A k \in 1..Len(ValueOf(p)) : ValueOf(p)[k] \notin Placeholders)
    => custom_prompt = Simultaneous(prompt_template)

(***************************************************************************)
(*                  Claims about the provider calls                         *)
(***************************************************************************)
(* C27: in the anthropic variant, whenever the native client call raises or *)
(* returns an unexpected shape, the same prompt goes to the HTTP fallback   *)
(* within the same attempt, before any delay, retry or return; no attempt   *)
(* ends after a native-client failure without the fallback having been      *)
(* tried.                                                                   *)
C27_SdkFailureFallsBackToRest ==
    [][ /\ (/\ pc = "scoring" /\ CurrentHandler = "anthropic" /\ params.client
            /\ call_pc = "attempt" /\ call_pc' # "attempt")
          => IF last_outcome' = "ok"
             THEN call_pc' = "returned"
             ELSE /\ call_pc' = "rest_fallback"
                  /\ delay' = 0 /\ waited' = 0
                  /\ ai_model' = ai_model /\ pc' = "scoring"
        /\ (call_pc = "rest_fallback" /\ call_pc' # "rest_fallback")
          => /\ CurrentHandler = "anthropic" /\ params.client
             /\ last_outcome # "ok"
             /\ waited = 0 /\ delay = 0
             /\ call_pc' = IF last_outcome' = "ok" THEN "returned"
                           ELSE IF last_outcome' = "bad_shape" THEN "attempt"
                           ELSE "sleeping"
      ]_vars

(* the SDK request has raised and the REST request is about to be sent *)
C27_Witness ==
    /\ pc = "scoring" /\ ai_provider = "anthropic" /\ params.client
    /\ call_pc = "rest_fallback"
    /\ last_outcome = "transport"
    /\ waited = 0 /\ delay = 0

(***************************************************************************)
(*                  Claims about the input records                          *)
(***************************************************************************)
(* C28: input records are never mutated by a run: every loaded record still *)
(* has exactly its original fields and values (no relevance_score,          *)
(* is_relevant or iteration field), and every result is a separate copy     *)
(* made for its (iteration, record) pair.                                   *)
C28_InputRecordsNotMutated ==
    /\ Len(data) \in { 0, Len(params.data) }
    /\ \A k \in 1..Len(data) :
         /\ DOMAIN data[k] = { "title", "abstract" }
         /\ data[k].title = params.data[k].title
         /\ data[k].abstract = params.data[k].abstract
    /\ Cardinality({ <<processed_data[k].iteration, processed_data[k].row>> :
                       k \in 1..Len(processed_data) }) = Len(processed_data)

(* two records went through two iterations and the results were saved: the  *)
(* loaded list is what was read from the file                               *)
C28_Witness ==
    /\ pc = "done" /\ output.written
    /\ Len(processed_data) = 4
    /\ Len(data) = 2 /\ data = params.data

(***************************************************************************)
(*                        Claims about termination                          *)
(***************************************************************************)
(* the run has ended on the completion event *)
Completed ==
    /\ pc = "done"
    /\ events # <<>>
    /\ events[Len(events)].sig = "processing_complete"
    /\ completed_tasks = EffectiveCount * params.iterations

(* C29: if the input is readable and non-empty, cancellation is never       *)
(* requested and every provider request receives a well-formed successful   *)
(* response, the run eventually emits the completion event, after exactly   *)
(* effectiveCount * iterations record visits. (A save that fails, the case  *)
(* of C21, is not held against the claim.)                                  *)
C29_RunTerminatesWithCompletion ==
    (params.readable /\ Len(params.data) > 0) ~> (Completed \/ SaveFailed)

(* what does hold: a processor that has its client and is not the o1-mini   *)
(* method ends the run, on the completion event unless the save failed      *)
C29_RunEndsUnlessNoClient ==
    (/\ pc = "start"
     /\ Handler(ResolveProvider(params.provider), params.model,
                params.use_prompt) # "o1_mini"
     /\ (params.client
           \/ ResolveProvider(params.provider) # "openai"))
    ~> (Completed \/ SaveFailed)

(* C30: once the cancellation flag has been set the worker eventually       *)
(* observes it at a loop boundary and stops issuing requests, even when the *)
(* provider answers every request with a transient error or a rate-limit    *)
(* signal: the flag alone is enough to stop the worker.                     *)
C30_FlagAloneStopsTheWorker ==
    terminate_flag ~> (pc = "done")

(* what does hold: a worker that stands at a loop boundary when the flag is *)
(* set, or comes back to one, ends the run                                  *)
C30_FlagObservedAtLoopBoundary ==
    (terminate_flag /\ pc \in { "iter_check", "rec_check", "finish" })
      ~> (pc = "done")

(***************************************************************************)
(*                  Claims about the terminal events                        *)
(***************************************************************************)
(* C31: under every interleaving of the stop request with the worker, once  *)
(* stop has been requested no output is written and no completion event is  *)
(* emitted for that run.                                                    *)
C31_NothingCompletesAfterStop ==
    [][ stop_requested
          => /\ output' = output
             /\ \A k \in (Len(events) + 1)..Len(events') :
                  events'[k].sig # "processing_complete" ]_vars

TerminalSignals == { "processing_complete", "error_occurred" }

(* C32: every run emits at most one terminal event (the completion event    *)
(* and the error event at most once each and never both), and no           *)
(* per-record event or progress value after it: a terminal event is the     *)
(* last event of the run.                                                   *)
C32_OneTerminalEventLast ==
    \A k \in 1..Len(events) :
        events[k].sig \in TerminalSignals
          => /\ k = Len(events)
             /\ pc = "done"

(* a run that scored a record and then failed to save: the error event      *)
(* follows the record's events and nothing follows it                       *)
C32_Witness ==
    /\ SaveFailed
    /\ Len(processed_data) >= 1
    /\ \E k \in 1..Len(events) : events[k].sig = "file_processed"
    /\ events[Len(events)] = ErrorOccurred

(***************************************************************************)
(*                        Claims about the counts                           *)
(***************************************************************************)
RelevantResults ==
    Cardinality({ k \in 1..Len(processed_data) : processed_data[k].is_relevant })

(* C33: at every point of a run relevant_count equals the number of results *)
(* in the accumulator whose is_relevant is true, over all iterations, and   *)
(* this is the value of 'Relevant Records' in the summary and of the        *)
(* completion event.                                                        *)
C33_RelevantCountMatchesResults ==
    /\ relevant_count = RelevantResults
    /\ output.written => output.relevant = RelevantResults
    /\ \A k \in 1..Len(events) :
         events[k].sig = "processing_complete" => events[k].b = RelevantResults

(* one record in two iterations, found relevant once and not relevant once: *)
(* the run completed reporting one relevant result                          *)
C33_Witness ==
    /\ pc = "done" /\ output.written
    /\ Len(processed_data) = 2
    /\ processed_data[1].is_relevant # processed_data[2].is_relevant
    /\ relevant_count = 1
    /\ events[Len(events)].sig = "processing_complete"
    /\ events[Len(events)].b = 1

(* C34: the processed count of the completion event, len(results) //        *)
(* iterations, equals the number of records processed, effectiveCount, for  *)
(* every mix of empty and non-empty records and every iteration count, and  *)
(* equals 'Processed Records' of the summary.                               *)
C34_ProcessedCountIsEffectiveCount ==
    \A k \in 1..Len(events) :
        events[k].sig = "processing_complete"
          => /\ events[k].a = EffectiveCount
             /\ events[k].a = output.processed

(* the part of C34 that holds: the summary carries effectiveCount, and so   *)
(* does the event when no visited record is empty or there is one iteration *)
C34_ProcessedCountWithoutEmptyRecords ==
    /\ output.written => output.processed = EffectiveCount
    /\ \A k \in 1..Len(events) :
         (/\ events[k].sig = "processing_complete"
          /\ (EmptyVisited = 0 \/ params.iterations = 1))
           => events[k].a = EffectiveCount

(***************************************************************************)
(*        the main window: form, start and stop buttons, worker threads     *)
(***************************************************************************)
MaxWorkers == 2
MaxCount == 2

SetupFile == "refs.xlsx"
AutoName == "refs_BibAI.xlsx"
ManualName == "out.xlsx"
TopicTexts == { "", "ai", "ml" }

(* update_start_button_state: the form is complete *)
update_start_button_state(file, topic_text) == file # "" /\ topic_text # ""

IsRunning(w) == w \in 1..Len(threads) /\ threads[w].state = "running"
RunningWorkers == { w \in 1..Len(threads) : threads[w].state = "running" }

NewThread == [state |-> "running", processed_count |-> 0, relevant_count |-> 0]

QueuedSignal(sig, a, b, from) == [sig |-> sig, a |-> a, b |-> b, from |-> from]

windowFrame == <<parseVars, renderVars, runVars>>

(* apply_setup_config: the setup dialog hands over the file and the column  *)
(* mapping                                                                  *)
apply_setup_config ==
    /\ ~aborted
    /\ input_file_edit = ""
    /\ input_file_edit' = SetupFile
    /\ title_display' = "Title"
    /\ abstract_display' = "Abstract"
    /\ start_button' = update_start_button_state(SetupFile, topic_edit)
    /\ UNCHANGED <<output_file_edit, topic_edit, stop_button, worker_thread,
                   threads, signals, message, aborted, windowFrame>>

(* the user edits the topic: textChanged -> update_start_button_state *)
topic_textChanged ==
    /\ ~aborted
    /\ \E t \in TopicTexts \ { topic_edit } :
         /\ topic_edit' = t
         /\ start_button' = update_start_button_state(input_file_edit, t)
    /\ UNCHANGED <<input_file_edit, output_file_edit, title_display,
                   abstract_display, stop_button, worker_thread, threads,
                   signals, message, aborted, windowFrame>>

(* browse_output_file with a file chosen *)
browse_output_file ==
    /\ ~aborted
    /\ output_file_edit' = ManualName
    /\ start_button' = update_start_button_state(input_file_edit, topic_edit)
    /\ UNCHANGED <<input_file_edit, topic_edit, title_display,
                   abstract_display, stop_button, worker_thread, threads,
                   signals, message, aborted, windowFrame>>

(* start_analysis_with_prompt: a new ProcessingThread replaces               *)
(* self.worker_thread and is started.  Releasing the last reference to a    *)
(* thread that is still running destroys a running QThread: the runtime     *)
(* either aborts the process or leaves the thread running.                  *)
start_analysis_with_prompt(fate) ==
    /\ stop_button' = TRUE
    /\ worker_thread' = Len(threads) + 1
    /\ IF IsRunning(worker_thread) /\ fate = "abort"
         THEN /\ aborted' = TRUE
              /\ threads' =
                   [ w \in 1..(Len(threads) + 1) |->
                       [state |-> "terminated", processed_count |-> 0,
                        relevant_count |-> 0] ]
              /\ start_button' = start_button
         ELSE /\ aborted' = aborted
              /\ threads' = Append(threads, NewThread)
              /\ start_button' = FALSE

(* start_filtering: the start button is clicked *)
start_filtering ==
    /\ ~aborted
    /\ start_button
    /\ Len(threads) < MaxWorkers
    /\ \E renamed, connected, confirmed \in BOOLEAN, fate \in {"abort", "orphan"} :
         LET valid == /\ input_file_edit # "" /\ title_display # ""
                      /\ abstract_display # "" /\ topic_edit # ""
             auto  == valid /\ (output_file_edit = ""
                                \/ (output_file_edit = ManualName /\ renamed))
         IN  /\ output_file_edit' = IF auto THEN AutoName ELSE output_file_edit
             /\ IF valid /\ connected /\ confirmed
                  THEN start_analysis_with_prompt(fate)
                  ELSE UNCHANGED <<start_button, stop_button, worker_thread,
                                   threads, aborted>>
    /\ UNCHANGED <<input_file_edit, topic_edit, title_display,
                   abstract_display, signals, message, windowFrame>>

(* stop_filtering: the stop button is clicked *)
stop_filtering ==
    /\ ~aborted
    /\ stop_button
    /\ IF IsRunning(worker_thread)
         THEN /\ threads' = [threads EXCEPT ![worker_thread].state = "terminated"]
              /\ start_button' = TRUE
              /\ stop_button' = FALSE
         ELSE UNCHANGED <<threads, start_button, stop_button>>
    /\ UNCHANGED <<input_file_edit, output_file_edit, topic_edit,
                   title_display, abstract_display, worker_thread, signals,
                   message, aborted, windowFrame>>

(* a running thread ends run() with                                         *)
(* processing_complete.emit(processed_count, relevant_count)                *)
WorkerComplete ==
    /\ ~aborted
    /\ \E w \in RunningWorkers, processed \in 0..MaxCount, relevant \in 0..MaxCount :
         /\ threads' = [threads EXCEPT ![w] =
                          [state |-> "finished",
                           processed_count |-> processed,
                           relevant_count |-> relevant]]
         /\ signals' = Append(signals,
                              QueuedSignal("processing_complete",
                                           processed, relevant, w))
    /\ UNCHANGED <<input_file_edit, output_file_edit, topic_edit,
                   title_display, abstract_display, start_button, stop_button,
                   worker_thread, message, aborted, windowFrame>>

(* a running thread ends run() with error_occurred.emit *)
WorkerError ==
    /\ ~aborted
    /\ \E w \in RunningWorkers :
         /\ threads' = [threads EXCEPT ![w].state = "failed"]
         /\ signals' = Append(signals, QueuedSignal("error_occurred", 0, 0, w))
    /\ UNCHANGED <<input_file_edit, output_file_edit, topic_edit,
                   title_display, abstract_display, start_button, stop_button,
                   worker_thread, message, aborted, windowFrame>>

(* the slot on_processing_complete(filtered_count, total_count): the        *)
(* message names filtered_count as the relevant and total_count as the      *)
(* processed publications                                                   *)
CompletionMessage(filtered_count, total_count, from) ==
    [kind |-> "complete", relevant |-> filtered_count,
     processed |-> total_count, from |-> from]

(* the event loop delivers processing_complete to on_processing_complete,   *)
(* the signal's arguments in the order they were emitted                    *)
on_processing_complete ==
    /\ ~aborted
    /\ signals # <<>>
    /\ Head(signals).sig = "processing_complete"
    /\ signals' = Tail(signals)
    /\ worker_thread' = 0
    /\ stop_button' = FALSE
    /\ message' = CompletionMessage(Head(signals).a, Head(signals).b,
                                    Head(signals).from)
    /\ output_file_edit' = IF input_file_edit # "" THEN AutoName ELSE ""
    /\ start_button' =
         IF output_file_edit # "" \/ input_file_edit # ""
           THEN update_start_button_state(input_file_edit, topic_edit)
           ELSE TRUE
    /\ UNCHANGED <<input_file_edit, topic_edit, title_display,
                   abstract_display, threads, aborted, windowFrame>>

(* the event loop delivers error_occurred to on_error *)
on_error ==
    /\ ~aborted
    /\ signals # <<>>
    /\ Head(signals).sig = "error_occurred"
    /\ signals' = Tail(signals)
    /\ worker_thread' = 0
    /\ stop_button' = FALSE
    /\ start_button' = TRUE
    /\ message' = [kind |-> "error", relevant |-> 0, processed |-> 0,
                   from |-> Head(signals).from]
    /\ UNCHANGED <<input_file_edit, output_file_edit, topic_edit,
                   title_display, abstract_display, threads, aborted,
                   windowFrame>>

InitWindow ==
    /\ ParseIdle
    /\ RenderIdle
    /\ InitUnreadable
    /\ RunIdle
    /\ WindowIdle

NextWindow ==
    \/ apply_setup_config
    \/ topic_textChanged
    \/ browse_output_file
    \/ start_filtering
    \/ stop_filtering
    \/ WorkerComplete
    \/ WorkerError
    \/ on_processing_complete
    \/ on_error

SpecWindow == InitWindow /\ [][NextWindow]_vars

(* C35: the completion message reports the worker's relevant_count as the   *)
(* relevant publications and its processed_count as the processed ones.     *)
C35_MessageReportsWorkerCounts ==
    message.kind = "complete"
      => /\ message.relevant = threads[message.from].relevant_count
         /\ message.processed = threads[message.from].processed_count

(* C36: at most one worker runs at any time, and the start button is        *)
(* disabled for as long as a worker runs.                                   *)
C36_OneWorkerStartDisabledWhileRunning ==
    /\ Cardinality(RunningWorkers) <= 1
    /\ RunningWorkers # {} => ~start_button

(* C37: a response that consists of one phrase of the keyword vocabulary    *)
(* is given that phrase's tabulated score.                                  *)
C37_EveryPhraseYieldsItsOwnScore ==
    \A k \in DOMAIN score_keywords :
        (p_pc = "parsed" /\ p_text = <<k>>)
          => p_result = Returned(score_keywords[k])

(* the six phrases other than "very slightly relevant" are given their own  *)
(* score, and no response is given 2 by the keywords                        *)
C37_PhrasesOtherThanVerySlightly ==
    /\ \A k \in DOMAIN score_keywords \ { "very slightly relevant" } :
           (p_pc = "parsed" /\ p_text = <<k>>)
             => p_result = Returned(score_keywords[k])
    /\ KeywordScore(p_text) # score_keywords["very slightly relevant"]
====
